---- MODULE Spec2Model ----
(***************************************************************************)
(* A model of the evaluation helpers of adaptive-expressions               *)
(* (adaptive/expressions/function_utils.py): evaluate_children, the apply  *)
(* combinators, the foreach higher-order form and the helper functions     *)
(* (truth, equality, verifiers, accessors, paths).                         *)
(*                                                                         *)
(* Python values are tagged records with one fixed shape, so that any two  *)
(* values can be compared: t is the Python type, n the number, s the       *)
(* string, l the elements of a list or the entries of a dict.  TLC's       *)
(* integers are 32 bits wide, so an int beyond that is held as             *)
(* h * 2^53 + n: h counts multiples of 2^53, the width of a float's        *)
(* mantissa.                                                               *)
(***************************************************************************)
EXTENDS Integers, Sequences, FiniteSets, TLC

VARIABLES
    kind,        \* the combinator whose evaluator is running, or "idle"
    children,    \* what expression.children[i].try_evaluate gives, per child
    fn,          \* the operator function handed to the combinator
    verify,      \* the verify function handed to the combinator
    ec,          \* what evaluate_children returned for this evaluation
    fnCalls,     \* the argument lists fn was called with, in call order
    out,         \* what the evaluator returned (or raised)
    pc,          \* position inside FunctionUtils.foreach
    state,       \* the caller's memory handed to foreach
    collection,  \* what children[0].try_evaluate gives in foreach
    script,      \* how the body (children[2]) behaves, per element
    stack,       \* the frames of stacked_memory, bottom first
    arr,         \* foreach: the local arr
    idx,         \* foreach: position of the loop in arr (0 before the loop)
    result,      \* foreach: the local result (Unbound until assigned)
    res,         \* foreach: the local res, the last body evaluation
    ferror,      \* foreach: the local error
    bodyLog,     \* foreach: the top frame seen by each body evaluation
    fout,        \* what foreach returned (or raised)
    helper,      \* the helper function that was called, or "idle"
    hargs,       \* the arguments of that call
    hret,        \* what the call returned (or raised)
    hcalls       \* the calls it made on its arguments, as <<method, path>>

applyVars == <<kind, children, fn, verify, ec, fnCalls, out>>
foreachVars ==
    <<pc, state, collection, script, stack, arr, idx, result, res, ferror,
      bodyLog, fout>>
helperVars == <<helper, hargs, hret, hcalls>>
vars == <<applyVars, foreachVars, helperVars>>

(***************************************************************************)
(* Bounds of the model.                                                    *)
(***************************************************************************)
MaxKids == 3
MaxItems == 3
MaxDepth == 3

(***************************************************************************)
(* Python values.                                                          *)
(***************************************************************************)
None == [t |-> "null", n |-> 0, h |-> 0, s |-> "", l |-> <<>>]
PyBool(b) == [t |-> "bool", n |-> IF b THEN 1 ELSE 0, h |-> 0, s |-> "", l |-> <<>>]
PyInt(k) == [t |-> "int", n |-> k, h |-> 0, s |-> "", l |-> <<>>]
PyStr(x) == [t |-> "str", n |-> 0, h |-> 0, s |-> x, l |-> <<>>]
PyList(xs) == [t |-> "list", n |-> 0, h |-> 0, s |-> "", l |-> xs]
\* one entry of a dict: the key in s, the value as the only element of l
Entry(k, v) == [t |-> "entry", n |-> 0, h |-> 0, s |-> k, l |-> <<v>>]
PyDict(es) == [t |-> "dict", n |-> 0, h |-> 0, s |-> "", l |-> es]
\* a local variable that was annotated but never assigned
Unbound == [t |-> "unbound", n |-> 0, h |-> 0, s |-> "", l |-> <<>>]

\* a float holds its value in units of 10^-9
FloatUnit == 10 ^ 9

PyFloat(units) == [t |-> "float", n |-> units, h |-> 0, s |-> "", l |-> <<>>]
\* the int 2^53 + d
PyBig(d) == [t |-> "int", n |-> d, h |-> 1, s |-> "", l |-> <<>>]

\* the outcome of a call: a returned (value, error) pair or a raised exception
Ret2(v, e) == [exc |-> FALSE, value |-> v, error |-> e, msg |-> ""]
Raise(m) == [exc |-> TRUE, value |-> None, error |-> None, msg |-> m]

\* Python truth value, as tested by `if x:`
PyTruthy(x) ==
    CASE x.t = "null" -> FALSE
      [] x.t \in {"bool", "int", "float"} -> x.n # 0 \/ x.h # 0
      [] x.t = "str" -> x.s # ""
      [] x.t \in {"list", "dict"} -> Len(x.l) > 0
      [] OTHER -> TRUE

\* isinstance(x, numbers.Number): bool is a subclass of int
IsNumber(x) == x.t \in {"int", "float", "bool"}

\* the decimal form of k in at least w digits
ZeroPad(k, w) ==
    LET x == ToString(k)
    IN  IF Len(x) >= w THEN x ELSE SubSeq("000000", 1, w - Len(x)) \o x

RECURSIVE StripZeros(_)
\* x without its trailing zeros
StripZeros(x) ==
    IF Len(x) > 0 /\ SubSeq(x, Len(x), Len(x)) = "0"
    THEN StripZeros(SubSeq(x, 1, Len(x) - 1))
    ELSE x

\* the decimal form of day * 86400 + sec, computed in two halves of six
\* digits
SecondsText(day, sec) ==
    LET a == day * 432
        lo == (a % 5000) * 200 + sec
        hi == a \div 5000 + lo \div 1000000
    IN  IF hi = 0 THEN ToString(lo)
        ELSE ToString(hi) \o ZeroPad(lo % 1000000, 6)

\* the float of the given digits in exponent form
Exponent(mantissa, digits) ==
    SubSeq(mantissa, 1, 1)
        \o (IF Len(mantissa) > 1
            THEN "." \o SubSeq(mantissa, 2, Len(mantissa))
            ELSE "")
        \o "e+" \o ToString(Len(digits) - 1)

\* repr() of the float whose value has the given digits: the shortest
\* digits that read back as the float, in exponent form from 10^16 on
FloatRepr(digits) ==
    IF Len(digits) <= 16 THEN digits \o ".0"
    ELSE Exponent(StripZeros(digits), digits)

\* repr() of the float (day * 86400 + sec) * 10^7
TickFloatRepr(day, sec) ==
    IF day = 0 /\ sec = 0 THEN "0.0"
    ELSE FloatRepr(SecondsText(day, sec) \o "0000000")

RECURSIVE JoinRepr(_, _)
RECURSIVE ReprOf(_)
\* repr(x), the form str() uses for the elements of a list
ReprOf(x) ==
    CASE x.t = "null" -> "None"
      [] x.t = "bool" -> IF x.n = 1 THEN "True" ELSE "False"
      [] x.t = "int" ->
            \* 2^53 = 9007199254740992: the last digit carries a small n
            IF x.h = 1 THEN "900719925474099" \o ToString(2 + x.n)
            ELSE ToString(x.n)
      [] x.t = "float" /\ x.l # <<>> -> TickFloatRepr(x.l[1], x.l[2])
      [] x.t = "str" -> "'" \o x.s \o "'"
      [] x.t = "list" -> "[" \o JoinRepr(x.l, 1) \o "]"
      [] x.t = "dict" -> "{" \o JoinRepr(x.l, 1) \o "}"
      [] x.t = "entry" -> "'" \o x.s \o "': " \o ReprOf(x.l[1])
      [] OTHER -> "{...}"
JoinRepr(xs, i) ==
    IF i > Len(xs) THEN ""
    ELSE ReprOf(xs[i]) \o (IF i < Len(xs) THEN ", " ELSE "") \o JoinRepr(xs, i + 1)

\* str(x)
StrOf(x) == IF x.t = "str" THEN x.s ELSE ReprOf(x)

\* expression.children[i].to_string(): the text of the i-th child (zero-based)
ChildText(i) == "child" \o ToString(i)

IsInteger(obj) ==
    /\ obj.t # "null"
    /\ \/ obj.t \in {"int", "bool"}
       \/ obj.t = "float" /\ obj.n % FloatUnit = 0

\* int(obj) of a value is_integer accepts
ToInt(obj) ==
    IF obj.t = "float"
    THEN (IF obj.n >= 0 THEN obj.n \div FloatUnit ELSE -((-obj.n) \div FloatUnit))
    ELSE obj.n

parse_int(obj) ==
    IF IsInteger(obj)
    THEN Ret2(PyInt(ToInt(obj)), None)
    ELSE Ret2(PyInt(0), PyStr(StrOf(obj) \o " must be a integer."))

(***************************************************************************)
(* Verifiers: each returns an error string or None.                        *)
(***************************************************************************)
verify_string(value, expression, number) ==
    IF value.t # "str" THEN PyStr(expression \o " is not a string.") ELSE None

verify_number(value, expression, pos) ==
    IF ~IsNumber(value) THEN PyStr(expression \o " is not a number.") ELSE None

verify_not_null(value, expression, number) ==
    IF value.t = "null" THEN PyStr(expression \o " is null.") ELSE None

\* verify(value, child, pos) for the verify function named v
VerifyCall(v, value, child, pos) ==
    CASE v = "verify_string" -> verify_string(value, child, pos)
      [] v = "verify_number" -> verify_number(value, child, pos)
      [] v = "verify_not_null" -> verify_not_null(value, child, pos)

(***************************************************************************)
(* evaluate_children.  kids[i] is what the i-th child's try_evaluate gives.*)
(* The result records, besides (args, error): whether a child raised, the  *)
(* zero-based children whose try_evaluate was called, in call order, and   *)
(* every call of verify as <<value, zero-based child, pos>>.               *)
(***************************************************************************)
\* the loop never breaks
StopsLoopBug(error) == FALSE

\* the two tests `if error: break` of the loop body
StopsLoop(error) == PyTruthy(error)

\* pos is not advanced
NextPosBug(pos) == pos

\* pos = pos + 1
NextPos(pos) == pos + 1

RECURSIVE EvalLoop(_, _, _, _, _, _, _, _)
EvalLoop(kids, v, i, args, error, pos, elog, vlog) ==
    IF i > Len(kids)
    THEN [exc |-> FALSE, msg |-> "", args |-> args, error |-> error,
          evaluated |-> elog, vlog |-> vlog]
    ELSE IF kids[i].exc
    THEN [exc |-> TRUE, msg |-> kids[i].msg, args |-> args, error |-> error,
          evaluated |-> Append(elog, i - 1), vlog |-> vlog]
    ELSE LET value == kids[i].value
             error1 == kids[i].error
             elog1 == Append(elog, i - 1)
         IN  IF StopsLoop(error1)
             THEN [exc |-> FALSE, msg |-> "", args |-> args, error |-> error1,
                   evaluated |-> elog1, vlog |-> vlog]
             ELSE LET error2 == IF v # "none"
                                THEN VerifyCall(v, value, ChildText(i - 1), pos)
                                ELSE error1
                      vlog2 == IF v # "none"
                               THEN Append(vlog, <<value, i - 1, pos>>)
                               ELSE vlog
                  IN  IF StopsLoop(error2)
                      THEN [exc |-> FALSE, msg |-> "", args |-> args,
                            error |-> error2, evaluated |-> elog1,
                            vlog |-> vlog2]
                      ELSE EvalLoop(kids, v, i + 1, Append(args, value), error2,
                                    NextPos(pos), elog1, vlog2)

evaluate_children(kids, v) == EvalLoop(kids, v, 1, <<>>, None, 0, <<>>, <<>>)

(***************************************************************************)
(* Operator functions handed to the combinators.  Each takes the argument  *)
(* list and returns a value (value-returning operators, error unused) or a *)
(* (value, error) pair, or raises.                                         *)
(***************************************************************************)
IndexError == "list index out of range"

\* every position Python's own indexing accepts
InRangeBug(index, length) ==
    index.h = 0 /\ -length <= index.n /\ index.n < length

\* 0 <= index < len(instance)
InRange(index, length) == index.h = 0 /\ 0 <= index.n /\ index.n < length

\* instance[index] of a list: a negative index counts from the end
Item(instance, index) ==
    IF index.n >= 0 THEN instance.l[index.n + 1]
    ELSE instance.l[Len(instance.l) + index.n + 1]

\* index is an int, a bool or not a number
access_index(instance, index) ==
    IF instance.t = "null" THEN Ret2(None, None)
    ELSE IF instance.t = "list"
    THEN IF ~IsNumber(index)
         THEN Raise("'<=' not supported between instances")
         ELSE IF InRange(index, Len(instance.l))
         THEN Ret2(Item(instance, index), None)
         ELSE Ret2(None, PyStr(StrOf(index) \o " is out of range for "
                                \o StrOf(instance)))
    ELSE IF instance.t = "str"
    THEN Ret2(None, PyStr(instance.s \o " is not a collection."))
    ELSE Raise("unsupported operand type(s) for +")

\* sub: args[0] - args[1]
OpSub(a) ==
    IF Len(a) < 2 THEN Raise(IndexError)
    ELSE IF IsNumber(a[1]) /\ IsNumber(a[2])
    THEN Ret2(PyInt(a[1].n - a[2].n), None)
    ELSE Raise("unsupported operand type(s) for -")

\* first: args[0]
OpFirst(a) == IF Len(a) < 1 THEN Raise(IndexError) ELSE Ret2(a[1], None)

OpParseInt(a) == IF Len(a) < 1 THEN Raise(IndexError) ELSE parse_int(a[1])

OpAccessIndex(a) ==
    IF Len(a) < 2 THEN Raise(IndexError) ELSE access_index(a[1], a[2])

(***************************************************************************)
(* dataUri: the UTF-8 bytes of a string and their base64 text.             *)
(***************************************************************************)
Uppercase == "ABCDEFGHIJKLMNOPQRSTUVWXYZ"
Lowercase == "abcdefghijklmnopqrstuvwxyz"
Digits == "0123456789"

\* the position of the character c in the string x, 0 if it is not there
IndexIn(x, c) ==
    IF \E i \in 1..Len(x) : SubSeq(x, i, i) = c
    THEN CHOOSE i \in 1..Len(x) : SubSeq(x, i, i) = c
    ELSE 0

\* c.encode("utf-8") of one character: letters, digits, space, e acute
EncodeChar(c) ==
    IF IndexIn(Uppercase, c) > 0 THEN <<64 + IndexIn(Uppercase, c)>>
    ELSE IF IndexIn(Lowercase, c) > 0 THEN <<96 + IndexIn(Lowercase, c)>>
    ELSE IF IndexIn(Digits, c) > 0 THEN <<47 + IndexIn(Digits, c)>>
    ELSE IF c = "é" THEN <<195, 169>>
    ELSE <<32>>

RECURSIVE Encode(_)
\* x.encode(encoding="utf-8")
Encode(x) ==
    IF Len(x) = 0 THEN <<>>
    ELSE EncodeChar(SubSeq(x, 1, 1)) \o Encode(SubSeq(x, 2, Len(x)))

Base64Chars == Uppercase \o Lowercase \o Digits \o "+/"

\* the base64 character of a 6-bit value
B64(k) == SubSeq(Base64Chars, k + 1, k + 1)

\* the padding is left out
PadBug(count) == ""

\* the '=' that fill the last group of four
Pad(count) == IF count = 1 THEN "=" ELSE "=="

RECURSIVE b64encode(_)
\* base64.b64encode(bytes).decode()
b64encode(bytes) ==
    IF Len(bytes) = 0 THEN ""
    ELSE IF Len(bytes) = 1
    THEN B64(bytes[1] \div 4) \o B64((bytes[1] % 4) * 16) \o Pad(2)
    ELSE IF Len(bytes) = 2
    THEN B64(bytes[1] \div 4)
         \o B64((bytes[1] % 4) * 16 + bytes[2] \div 16)
         \o B64((bytes[2] % 16) * 4) \o Pad(1)
    ELSE B64(bytes[1] \div 4)
         \o B64((bytes[1] % 4) * 16 + bytes[2] \div 16)
         \o B64((bytes[2] % 16) * 4 + bytes[3] \div 64)
         \o B64(bytes[3] % 64)
         \o b64encode(SubSeq(bytes, 4, Len(bytes)))

DataUriPrefix == "data:text/plain;charset=utf-8;base64,"

\* the anonymous function of DataUri.evaluator
OpDataUri(a) ==
    IF Len(a) < 1 THEN Raise(IndexError)
    ELSE Ret2(PyStr(DataUriPrefix \o b64encode(Encode(StrOf(a[1])))), None)

(***************************************************************************)
(* Ticks and datetimes.  A tick count does not fit the integers of the     *)
(* checker: the int day * 864000000000 + sec * 10^7 + n is held with day   *)
(* and sec as the elements of l (day 0 is 0001-01-01).                     *)
(***************************************************************************)
PyTicks(day, sec, frac) ==
    [t |-> "int", n |-> frac, h |-> 0, s |-> "", l |-> <<day, sec>>]

\* the float whose value is the tick count of a whole second
PyTickFloat(day, sec) ==
    [t |-> "float", n |-> 0, h |-> 0, s |-> "", l |-> <<day, sec>>]

\* the day, second of the day and ticks of the second of an int
TicksOf(x) ==
    IF x.l = <<>> THEN [day |-> 0, sec |-> 0, frac |-> x.n]
    ELSE [day |-> x.l[1], sec |-> x.l[2], frac |-> x.n]

\* 621355968000000000 ticks are UnixEpochDay days
UnixEpochDay == 719162

\* datetime.max is 9999-12-31
MaxDay == 3652058

\* days before January 1st of year y
DaysBeforeYear(y) ==
    365 * (y - 1) + (y - 1) \div 4 - (y - 1) \div 100 + (y - 1) \div 400

IsLeap(y) == y % 4 = 0 /\ (y % 100 # 0 \/ y % 400 = 0)

\* days of year y before the first day of month m
DaysBeforeMonth(y, m) ==
    <<0, 31, 59, 90, 120, 151, 181, 212, 243, 273, 304, 334>>[m]
        + (IF m > 2 /\ IsLeap(y) THEN 1 ELSE 0)

\* the year the day falls in
YearOf(day) ==
    CHOOSE y \in (day \div 366 + 1)..(day \div 366 + 29) :
        DaysBeforeYear(y) <= day /\ day < DaysBeforeYear(y + 1)

\* the month the day of the year (zero-based) falls in
MonthOf(y, doy) ==
    CHOOSE m \in 1..12 :
        /\ DaysBeforeMonth(y, m) <= doy
        /\ m = 12 \/ doy < DaysBeforeMonth(y, m + 1)

\* the datetime of a day, a second of the day and a microsecond
DateTime(day, sec, us) ==
    LET y == YearOf(day)
        doy == day - DaysBeforeYear(y)
        m == MonthOf(y, doy)
    IN  [year |-> y, month |-> m, day |-> doy - DaysBeforeMonth(y, m) + 1,
         hour |-> sec \div 3600, minute |-> (sec % 3600) \div 60,
         second |-> sec % 60, microsecond |-> us]

\* fromtimestamp probes the local time one day earlier: the first day of
\* year 1 is out of range
BelowRange(day) == day < 1

\* datetime.fromtimestamp((timestamp - 621355968000000000) / 10000000)
\*     .astimezone(tz.gettz("UTC")), the local zone being UTC: the seconds
\* are rounded to the microsecond
fromtimestamp(x) ==
    LET a == TicksOf(x)
        unix == a.day - UnixEpochDay
        us == (a.frac + 5) \div 10
        carry == us \div 1000000
        sec == a.sec + carry
        day == UnixEpochDay + unix + sec \div 86400
    IN  IF a.frac < 0 \/ BelowRange(a.day)
        THEN Raise("year 0 is out of range")
        ELSE IF day > MaxDay THEN Raise("year 10000 is out of range")
        ELSE Ret2(DateTime(day, sec % 86400, us % 1000000), None)

\* the fields a format can name, longest first
FormatFields == <<"yyyy", "fff", "MM", "dd", "HH", "mm", "ss">>

FieldText(dt, f) ==
    CASE f = "yyyy" -> ZeroPad(dt.year, 4)
      [] f = "MM" -> ZeroPad(dt.month, 2)
      [] f = "dd" -> ZeroPad(dt.day, 2)
      [] f = "HH" -> ZeroPad(dt.hour, 2)
      [] f = "mm" -> ZeroPad(dt.minute, 2)
      [] f = "ss" -> ZeroPad(dt.second, 2)
      [] f = "fff" -> ZeroPad(dt.microsecond \div 1000, 3)

\* the fields the text x starts with
StartFields(x) ==
    {i \in 1..Len(FormatFields) :
        /\ Len(x) >= Len(FormatFields[i])
        /\ SubSeq(x, 1, Len(FormatFields[i])) = FormatFields[i]}

RECURSIVE FormatDatetime(_, _)
\* FormatDatetime.format(date_time, fmt): every field of the format is
\* replaced by its value, every other character is kept
FormatDatetime(dt, fmt) ==
    IF Len(fmt) = 0 THEN ""
    ELSE IF StartFields(fmt) # {}
    THEN LET f == FormatFields[CHOOSE i \in StartFields(fmt) :
                                  \A j \in StartFields(fmt) : i <= j]
         IN  FieldText(dt, f)
                 \o FormatDatetime(dt, SubSeq(fmt, Len(f) + 1, Len(fmt)))
    ELSE SubSeq(fmt, 1, 1) \o FormatDatetime(dt, SubSeq(fmt, 2, Len(fmt)))

default_date_time_format == "yyyy-MM-ddTHH:mm:ss.fffZ"

\* result = FormatDatetime.format(date_time, ...) of the outcome of
\* fromtimestamp, with the format args[1] or the default one
Formatted(date_time, a) ==
    IF date_time.exc THEN date_time
    ELSE Ret2(PyStr(FormatDatetime(date_time.value,
                                   IF Len(a) = 2 THEN a[2].s
                                   ELSE default_date_time_format)),
              None)

\* the anonymous function of FormatTicks.evaluator
OpFormatTicks(a) ==
    IF Len(a) < 1 THEN Raise(IndexError)
    ELSE IF a[1].t \in {"int", "bool"}
    THEN Formatted(fromtimestamp(a[1]), a)
    ELSE Ret2(None,
              PyStr("formatTicks first argument {"
                        \o StrOf(a[1]) \o "} is not a number"))

RECURSIVE DigitsValue(_)
\* the number a text of decimal digits stands for, -1 if it has another
\* character
DigitsValue(x) ==
    IF Len(x) = 0 THEN 0
    ELSE LET d == IndexIn(Digits, SubSeq(x, Len(x), Len(x)))
             p == DigitsValue(SubSeq(x, 1, Len(x) - 1))
         IN  IF d = 0 \/ p < 0 THEN -1 ELSE 10 * p + d - 1

\* a text has the form dddd-dd-ddTdd:dd:dd.dddZ
IsoShaped(x) ==
    /\ Len(x) = 24
    /\ SubSeq(x, 5, 5) = "-" /\ SubSeq(x, 8, 8) = "-"
    /\ SubSeq(x, 11, 11) = "T"
    /\ SubSeq(x, 14, 14) = ":" /\ SubSeq(x, 17, 17) = ":"
    /\ SubSeq(x, 20, 20) = "." /\ SubSeq(x, 24, 24) = "Z"
    /\ \A p \in {<<1, 4>>, <<6, 7>>, <<9, 10>>, <<12, 13>>, <<15, 16>>,
                 <<18, 19>>, <<21, 23>>} :
           DigitsValue(SubSeq(x, p[1], p[2])) >= 0

\* the day, second of the day and millisecond an ISO text names
IsoInstant(x) ==
    LET y == DigitsValue(SubSeq(x, 1, 4))
        m == DigitsValue(SubSeq(x, 6, 7))
        d == DigitsValue(SubSeq(x, 9, 10))
    IN  [day |-> DaysBeforeYear(y) + DaysBeforeMonth(y, m) + d - 1,
         sec |-> DigitsValue(SubSeq(x, 12, 13)) * 3600
                     + DigitsValue(SubSeq(x, 15, 16)) * 60
                     + DigitsValue(SubSeq(x, 18, 19)),
         ms |-> DigitsValue(SubSeq(x, 21, 23))]

\* an ISO text names a date of the calendar and a time of the day
IsoValid(x) ==
    /\ IsoShaped(x)
    /\ LET y == DigitsValue(SubSeq(x, 1, 4))
           m == DigitsValue(SubSeq(x, 6, 7))
           d == DigitsValue(SubSeq(x, 9, 10))
       IN  /\ y >= 1 /\ m \in 1..12 /\ d >= 1
           /\ DaysBeforeMonth(y, m) + d
                  <= (IF m = 12 THEN DaysBeforeYear(y + 1) - DaysBeforeYear(y)
                      ELSE DaysBeforeMonth(y, m + 1))
    /\ DigitsValue(SubSeq(x, 12, 13)) < 24
    /\ DigitsValue(SubSeq(x, 15, 16)) < 60
    /\ DigitsValue(SubSeq(x, 18, 19)) < 60

RECURSIVE Upper(_)
\* x.upper()
Upper(x) ==
    IF Len(x) = 0 THEN ""
    ELSE LET c == SubSeq(x, 1, 1)
             k == IndexIn(Lowercase, c)
         IN  (IF k > 0 THEN SubSeq(Uppercase, k, k) ELSE c)
                 \o Upper(SubSeq(x, 2, Len(x)))

\* the datetime an ISO text names
IsoDateTime(x) ==
    [year |-> DigitsValue(SubSeq(x, 1, 4)),
     month |-> DigitsValue(SubSeq(x, 6, 7)),
     day |-> DigitsValue(SubSeq(x, 9, 10)),
     hour |-> DigitsValue(SubSeq(x, 12, 13)),
     minute |-> DigitsValue(SubSeq(x, 15, 16)),
     second |-> DigitsValue(SubSeq(x, 18, 19)),
     microsecond |-> DigitsValue(SubSeq(x, 21, 23)) * 1000]

\* dateutil's parse(timestamp): an ISO text and a date alone are read, a
\* text that names no date raises
parse(timestamp) ==
    IF IsoValid(timestamp) THEN Ret2(IsoDateTime(timestamp), None)
    ELSE IF Len(timestamp) = 10 /\ IsoValid(timestamp \o "T00:00:00.000Z")
    THEN Ret2(IsoDateTime(timestamp \o "T00:00:00.000Z"), None)
    ELSE Raise("Unknown string format: " \o timestamp)

\* the body of parse_iso_timestamp after parsed = parse(timestamp)
Parsed(parsed, timestamp) ==
    IF parsed.exc
    THEN Ret2(None, PyStr("Could not parse {" \o timestamp \o "}"))
    ELSE IF Upper(FormatDatetime(parsed.value, default_date_time_format))
                = timestamp
    THEN Ret2(parsed.value, None)
    ELSE Ret2(None,
              PyStr("{" \o timestamp \o "} is not standard ISO format."))

parse_iso_timestamp(timestamp) == Parsed(parse(timestamp), timestamp)

normalize_to_date_time(timestamp) ==
    IF timestamp.t = "str" THEN parse_iso_timestamp(timestamp.s)
    ELSE Ret2(None,
              PyStr("{" \o StrOf(timestamp)
                        \o "} should be a standard ISO format string or a DateTime object."))

\* parsed.astimezone(tz.gettz("UTC")).timestamp() * 10000000
\*     + 621355968000000000 of a whole second: a float, exact up to the
\* year 3654
\* the float of the tick count of a parsed whole second, or the error
TicksFloat(parsed, error) ==
    IF error = None
    THEN Ret2(PyTickFloat(DaysBeforeYear(parsed.year)
                              + DaysBeforeMonth(parsed.year, parsed.month)
                              + parsed.day - 1,
                          parsed.hour * 3600 + parsed.minute * 60
                              + parsed.second),
              None)
    ELSE Ret2(None, error)

\* the body of ticks_with_error after normalize_to_date_time
Normalized(n) == TicksFloat(n.value, n.error)

ticks_with_error(timestamp) == Normalized(normalize_to_date_time(timestamp))

\* the function of the ticks built-in
OpTicks(a) ==
    IF Len(a) < 1 THEN Raise(IndexError) ELSE ticks_with_error(a[1])

\* function(args) for a value-returning operator
CallValue(f, a) ==
    CASE f = "sub" -> OpSub(a)
      [] f = "first" -> OpFirst(a)
      [] f = "dataUri" -> OpDataUri(a)

\* function(args) for an operator returning (value, error)
CallPair(f, a) ==
    CASE f = "parse_int" -> OpParseInt(a)
      [] f = "access_index" -> OpAccessIndex(a)
      [] f = "formatTicks" -> OpFormatTicks(a)
      [] f = "ticks" -> OpTicks(a)

(***************************************************************************)
(* apply_sequence and apply_sequence_with_error: the anonymous functions   *)
(* that fold the operator over the arguments.  ret is the outcome, calls   *)
(* the binary_args of every call of the operator.                          *)
(***************************************************************************)
\* the two arguments swapped
BinaryArgsBug(so_far, arg) == <<arg, so_far>>

\* binary_args[0] = so_far; binary_args[1] = arg
BinaryArgs(so_far, arg) == <<so_far, arg>>

RECURSIVE SequenceLoop(_, _, _, _, _)
SequenceLoop(f, args, i, so_far, calls) ==
    IF i > Len(args) THEN [ret |-> Ret2(so_far, None), calls |-> calls]
    ELSE LET binary_args == BinaryArgs(so_far, args[i])
             r == CallValue(f, binary_args)
         IN  IF r.exc
             THEN [ret |-> r, calls |-> Append(calls, binary_args)]
             ELSE SequenceLoop(f, args, i + 1, r.value,
                               Append(calls, binary_args))

SequenceFn(f, args) ==
    IF Len(args) = 0 THEN [ret |-> Raise(IndexError), calls |-> <<>>]
    ELSE SequenceLoop(f, args, 2, args[1], <<>>)

\* the fold goes on after a failed step
StepFailedBug(error) == FALSE

\* `if error: return value, error` inside the fold
StepFailed(error) == PyTruthy(error)

RECURSIVE SequenceWithErrorLoop(_, _, _, _, _)
SequenceWithErrorLoop(f, args, i, so_far, calls) ==
    IF i > Len(args) THEN [ret |-> Ret2(so_far, None), calls |-> calls]
    ELSE LET binary_args == BinaryArgs(so_far, args[i])
             r == CallPair(f, binary_args)
         IN  IF r.exc
             THEN [ret |-> r, calls |-> Append(calls, binary_args)]
             ELSE IF StepFailed(r.error)
             THEN [ret |-> Ret2(r.value, r.error),
                   calls |-> Append(calls, binary_args)]
             ELSE SequenceWithErrorLoop(f, args, i + 1, r.value,
                                        Append(calls, binary_args))

SequenceWithErrorFn(f, args) ==
    IF Len(args) = 0 THEN [ret |-> Raise(IndexError), calls |-> <<>>]
    ELSE SequenceWithErrorLoop(f, args, 2, args[1], <<>>)

(***************************************************************************)
(* apply and apply_with_error: the evaluators they build.  seq says that   *)
(* the function is the fold built by apply_sequence(_with_error).          *)
(***************************************************************************)
\* the operator is called whatever evaluate_children returned
NoErrorBug(error) == TRUE

\* `if error is None:` before the operator is called
NoError(error) == error = None

\* str(err) of a caught exception
ErrText(m) == PyStr(m)

apply(f, seq, kids, v) ==
    LET e == evaluate_children(kids, v)
        c == IF seq THEN SequenceFn(f, e.args)
             ELSE [ret |-> CallValue(f, e.args), calls |-> <<e.args>>]
    IN  IF e.exc THEN [out |-> Raise(e.msg), ec |-> e, calls |-> <<>>]
        ELSE IF NoError(e.error)
        THEN [out |-> IF c.ret.exc THEN Ret2(None, ErrText(c.ret.msg))
                      ELSE Ret2(c.ret.value, e.error),
              ec |-> e, calls |-> c.calls]
        ELSE [out |-> Ret2(None, e.error), ec |-> e, calls |-> <<>>]

apply_with_error(f, seq, kids, v) ==
    LET e == evaluate_children(kids, v)
        c == IF seq THEN SequenceWithErrorFn(f, e.args)
             ELSE [ret |-> CallPair(f, e.args), calls |-> <<e.args>>]
    IN  IF e.exc THEN [out |-> Raise(e.msg), ec |-> e, calls |-> <<>>]
        ELSE IF NoError(e.error)
        THEN [out |-> IF c.ret.exc THEN Ret2(None, ErrText(c.ret.msg))
                      ELSE Ret2(c.ret.value, c.ret.error),
              ec |-> e, calls |-> c.calls]
        ELSE [out |-> Ret2(None, e.error), ec |-> e, calls |-> <<>>]

apply_sequence(f, kids, v) == apply(f, TRUE, kids, v)

apply_sequence_with_error(f, kids, v) == apply_with_error(f, TRUE, kids, v)

(***************************************************************************)
(* What the children of a node can evaluate to: a value, an error, or a    *)
(* raised exception (a raw evaluator that raises).  The error strings are  *)
(* non-empty: the texts function_utils.py builds carry a fixed suffix.  An *)
(* exception raised without a message, whose str() is empty, is not among  *)
(* the inputs.                                                             *)
(***************************************************************************)
Nested == PyList(<<PyList(<<PyInt(5), PyInt(1)>>), PyInt(1)>>)

Literals == {None, PyInt(1), PyInt(5), PyStr("a"), Nested}

ChildResults ==
    {Ret2(x, None) : x \in Literals}
        \cup {Ret2(None, PyStr("e1")), Ret2(None, PyStr("e2"))}
        \cup {Raise("child raised")}

ChildLists == UNION {[1..n -> ChildResults] : n \in 0..MaxKids}

Verifiers == {"none", "verify_string", "verify_number", "verify_not_null"}

NoEc ==
    [exc |-> FALSE, msg |-> "", args |-> <<>>, error |-> None,
     evaluated |-> <<>>, vlog |-> <<>>]

(***************************************************************************)
(* The evaluation of one node built with a combinator.                     *)
(***************************************************************************)
ApplyInit ==
    /\ kind = "idle"
    /\ children = <<>>
    /\ fn = "none"
    /\ verify = "none"
    /\ ec = NoEc
    /\ fnCalls = <<>>
    /\ out = Ret2(None, None)

Evaluate(k, kids, f, v, r) ==
    /\ kind' = k
    /\ children' = kids
    /\ fn' = f
    /\ verify' = v
    /\ ec' = r.ec
    /\ fnCalls' = r.calls
    /\ out' = r.out
    /\ UNCHANGED <<foreachVars, helperVars>>

Apply ==
    /\ kind = "idle"
    /\ \E kids \in ChildLists, f \in {"sub", "first"}, v \in Verifiers :
        Evaluate("apply", kids, f, v, apply(f, FALSE, kids, v))

ApplyWithError ==
    /\ kind = "idle"
    /\ \E kids \in ChildLists, f \in {"parse_int", "access_index"}, v \in Verifiers :
        Evaluate("apply_with_error", kids, f, v,
                 apply_with_error(f, FALSE, kids, v))

ApplySequence ==
    /\ kind = "idle"
    /\ \E kids \in ChildLists, f \in {"sub"}, v \in Verifiers :
        Evaluate("apply_sequence", kids, f, v, apply_sequence(f, kids, v))

ApplySequenceWithError ==
    /\ kind = "idle"
    /\ \E kids \in ChildLists, f \in {"access_index"}, v \in Verifiers :
        Evaluate("apply_sequence_with_error", kids, f, v,
                 apply_sequence_with_error(f, kids, v))

\* the evaluator has returned to its caller; the next node is evaluated
Return ==
    /\ kind # "idle"
    /\ kind' = "idle"
    /\ children' = <<>>
    /\ fn' = "none"
    /\ verify' = "none"
    /\ ec' = NoEc
    /\ fnCalls' = <<>>
    /\ out' = Ret2(None, None)
    /\ UNCHANGED <<foreachVars, helperVars>>

(***************************************************************************)
(* The built-in functions: each evaluates a node whose children passed its *)
(* validator.                                                              *)
(***************************************************************************)
Texts == {"", "a", "hi", "hello", "Zed 09", "é", "héllo"}

\* what the child of dataUri can evaluate to
DataUriChildren ==
    {Ret2(PyStr(x), None) : x \in Texts}
    \cup {Ret2(x, None) : x \in {None, PyInt(1), PyBool(TRUE), Nested,
                                   PyDict(<<>>)}}
    \cup {Ret2(None, PyStr("e1")), Raise("boom")}

\* DataUri: apply(anonymous_function, verify_string) on a unary node
DataUri ==
    /\ kind = "idle"
    /\ \E child \in DataUriChildren :
          Evaluate("dataUri", <<child>>, "dataUri", "verify_string",
                   apply("dataUri", FALSE, <<child>>, "verify_string"))

\* tick counts: the first and second day of year 1, dates before and after
\* 1970, leap days, the last second of year 9999, fractions of a second
TickCounts ==
    {PyInt(0), PyInt(1), PyTicks(0, 86399, 0), PyTicks(1, 0, 0),
     PyTicks(693654, 0, 0), PyTicks(719161, 86399, 0), PyTicks(719162, 0, 0),
     PyTicks(730178, 0, 0), PyTicks(736694, 28800, 0),
     PyTicks(737483, 86399, 9990000), PyTicks(737550, 42420, 0),
     PyTicks(737550, 42420, 1234567), PyTicks(737789, 86399, 9999996),
     PyTicks(3652058, 86399, 0), PyTicks(3652059, 0, 0)}

\* what the first child of formatTicks can evaluate to
FormatTicksChildren ==
    {Ret2(x, None) : x \in TickCounts}
    \cup {Ret2(x, None) : x \in {None, PyBool(TRUE), PyStr("a"), Nested,
                                   PyTickFloat(737550, 42420),
                                   PyTickFloat(1, 0)}}
    \cup {Ret2(None, PyStr("e1")), Raise("boom")}

\* what the format child can evaluate to
FormatChildren ==
    {Ret2(PyStr(x), None) : x \in {"yyyy-MM-dd", "HH:mm:ss.fff"}}
    \cup {Ret2(None, PyStr("e2"))}

\* FormatTicks: apply_with_error(anonymous_function) on a node of one or two
\* children
FormatTicks ==
    /\ kind = "idle"
    /\ \E first \in FormatTicksChildren,
          rest \in {<<>>} \cup {<<c>> : c \in FormatChildren} :
          Evaluate("formatTicks", <<first>> \o rest, "formatTicks", "none",
                   apply_with_error("formatTicks", FALSE, <<first>> \o rest,
                                    "none"))

\* whole seconds in the default format, and texts that are not
Timestamps ==
    {"2018-01-01T08:00:00.000Z", "2020-05-06T11:47:00.000Z",
     "1970-01-01T00:00:00.000Z", "1969-12-31T23:59:59.000Z",
     "2000-02-29T23:59:59.000Z", "0001-01-02T00:00:00.000Z",
     "2020-05-06", "2021-02-30T00:00:00.000Z", "hello", ""}

\* what the child of ticks can evaluate to
TicksChildren ==
    {Ret2(PyStr(x), None) : x \in Timestamps}
    \cup {Ret2(x, None) : x \in {None, PyInt(1), Nested}}
    \cup {Ret2(None, PyStr("e1")), Raise("boom")}

\* the ticks built-in: ticks_with_error applied to the value of its child
Ticks ==
    /\ kind = "idle"
    /\ \E child \in TicksChildren :
          Evaluate("ticks", <<child>>, "ticks", "none",
                   apply_with_error("ticks", FALSE, <<child>>, "none"))

\* formatTicks(ticks(t)): the node just evaluated is the child of a
\* formatTicks node
FormatTicksOfTicks ==
    /\ kind = "ticks"
    /\ Evaluate("formatTicks", <<out>>, "formatTicks", "none",
                apply_with_error("formatTicks", FALSE, <<out>>, "none"))

\* the first position of one of the characters cs in x, 0 if there is none
Find(x, cs) ==
    LET at == {i \in 1..Len(x) : IndexIn(cs, SubSeq(x, i, i)) > 0}
    IN  IF at = {} THEN 0 ELSE CHOOSE i \in at : \A j \in at : i <= j

\* the last position of the character c in x, 0 if there is none
FindLast(x, c) ==
    LET at == {i \in 1..Len(x) : SubSeq(x, i, i) = c}
    IN  IF at = {} THEN 0 ELSE CHOOSE i \in at : \A j \in at : i >= j

\* x after its scheme: the text before the first ':' is a scheme when it
\* starts with a letter and holds letters, digits, '+', '-' and '.'
AfterScheme(x) ==
    LET colon == Find(x, ":")
        scheme_chars == Uppercase \o Lowercase \o Digits \o "+-."
    IN  IF /\ colon > 1
           /\ IndexIn(Uppercase \o Lowercase, SubSeq(x, 1, 1)) > 0
           /\ \A i \in 1..(colon - 1) :
                  IndexIn(scheme_chars, SubSeq(x, i, i)) > 0
        THEN SubSeq(x, colon + 1, Len(x))
        ELSE x

\* x up to the position before stop, the whole of x when stop is 0
Before(x, stop) == IF stop = 0 THEN x ELSE SubSeq(x, 1, stop - 1)

\* the authority of a URI without its scheme: what follows '//' up to the
\* next '/', '?' or '#'
Authority(rest) ==
    IF Len(rest) >= 2 /\ SubSeq(rest, 1, 2) = "//"
    THEN Before(SubSeq(rest, 3, Len(rest)),
                Find(SubSeq(rest, 3, Len(rest)), "/?#"))
    ELSE ""

\* urlparse(x).netloc
Netloc(x) == Authority(AfterScheme(x))

\* x after the position at, nothing when at is 0
After(x, at) == IF at = 0 THEN "" ELSE SubSeq(x, at + 1, Len(x))

\* the text after the first ':' of a host part
HostPort(hostinfo) == After(hostinfo, Find(hostinfo, ":"))

\* the text after the first ':' of the host part of a netloc
PortText(netloc) ==
    HostPort(SubSeq(netloc, FindLast(netloc, "@") + 1, Len(netloc)))

MaxPort == 65535

\* int(port) of a port text, None without one, ValueError for a text that is
\* not a number of 0..65535
PortNumber(port) ==
    IF port = "" THEN Ret2(None, None)
    ELSE IF DigitsValue(port) < 0
    THEN Raise("Port could not be cast to integer value as '" \o port \o "'")
    ELSE IF DigitsValue(port) > MaxPort
    THEN Raise("Port out of range 0-65535")
    ELSE Ret2(PyInt(DigitsValue(port)), None)

\* urlparse(x).port
Port(x) == PortNumber(PortText(Netloc(x)))

\* value = parsed.port and the test of parsed.netloc
PortOrError(port, netloc) ==
    IF port.exc THEN port
    ELSE IF netloc = ""
    THEN Ret2(port.value,
              PyStr("invalid operation, input uri should be an absolute URI"))
    ELSE Ret2(port.value, None)

\* the body of UriPort.evaluator after evaluate_children
UriPortOf(e) ==
    IF e.exc THEN Raise(e.msg)
    ELSE IF e.error # None THEN Ret2(None, e.error)
    ELSE IF Len(e.args) < 1 THEN Raise(IndexError)
    ELSE IF e.args[1].t # "str"
    THEN Ret2(None, PyStr(StrOf(e.args[1]) \o " should be a string."))
    ELSE PortOrError(Port(e.args[1].s), Netloc(e.args[1].s))

\* what the evaluator returned and what evaluate_children gave it
UriPortOutcome(e) == [out |-> UriPortOf(e), ec |-> e, calls |-> <<>>]

\* UriPort.evaluator: a raw evaluator over evaluate_children
uri_port(kids) == UriPortOutcome(evaluate_children(kids, "none"))

Uris ==
    {"http://www.localhost:8080", "http://a.com", "www.localhost:8080",
     "http://a:99999", "http://a:abc", "http://a:", "http://a:080", "/path",
     "", "http://u:p@h:81/x?q#f", "//h:80", "http://a:65535",
     "http://a:65536", "mailto:x@y.z", "http://a:0/b:1"}

\* what the child of uriPort can evaluate to
UriPortChildren ==
    {Ret2(PyStr(x), None) : x \in Uris}
    \cup {Ret2(x, None) : x \in {None, PyInt(8080), Nested}}
    \cup {Ret2(None, PyStr("e1")), Raise("boom")}

UriPort ==
    /\ kind = "idle"
    /\ \E child \in UriPortChildren :
          Evaluate("uriPort", <<child>>, "none", "none", uri_port(<<child>>))

(***************************************************************************)
(* foreach.  The stacked memory is the sequence of its frames, the base    *)
(* frame first.                                                            *)
(***************************************************************************)
\* StackedMemory.wrap(state)
Wrap(memory) == <<memory>>

\* stacked_memory.append(frame)
Push(frames, frame) == Append(frames, frame)

\* stacked_memory.pop()
Pop(frames) == SubSeq(frames, 1, Len(frames) - 1)

\* str(expression.children[1].children[0].get_value())
iterator_name == "x"

\* local = {iterator_name: item}
Local(item) == PyDict(<<Entry(iterator_name, item)>>)

\* arr.append({"key": ele, "value": instance[ele]})
KeyValue(e) == PyDict(<<Entry("key", PyStr(e.s)), Entry("value", e.l[1])>>)

\* the items taken last first
ForeachArrBug(instance) ==
    [i \in 1..Len(instance.l) |-> instance.l[Len(instance.l) + 1 - i]]

\* the list foreach iterates: the elements of a list, the entries of a dict
\* (a set, whose order Python leaves open, is not among the collections)
ForeachArr(instance) ==
    IF instance.t = "list" THEN instance.l
    ELSE [i \in 1..Len(instance.l) |-> KeyValue(instance.l[i])]

\* the error foreach computes from children[0]'s result, before the loop
ForeachError(c) ==
    IF c.value.t = "null" THEN PyStr("child0 evaluated to null.")
    ELSE IF c.error # None THEN c.error
    ELSE IF c.value.t \in {"list", "dict"} THEN None
    ELSE PyStr("child0 is not a collection or structure object to run foreach")

\* expression.children[2].try_evaluate(stacked_memory, options): the body reads
\* the iterator from the top frame, and ends as the script says for element i
BodyResult(frames, behaviour, i) ==
    LET item == frames[Len(frames)].l[1].l[1]
    IN  CASE behaviour = "ok" -> Ret2(item, None)
          [] behaviour = "err" -> Ret2(None, PyStr("body failed at " \o ToString(i)))
          [] behaviour = "errval" ->
                Ret2(item, PyStr("body failed at " \o ToString(i)))
          [] behaviour = "raise" -> Raise("body raised")

\* an error of the body is not looked at
BodyFailedBug(r) == FALSE

\* `if res[1] is not None:` after the body
BodyFailed(r) == r.error # None

Behaviours == {"ok", "err", "errval", "raise"}

Items == {PyInt(1), PyStr("a")}

Keys == {"a", "b"}

ItemLists == UNION {[1..n -> Items] : n \in 0..MaxItems}

EntryLists ==
    {es \in UNION {[1..n -> {Entry(k, x) : k \in Keys, x \in Items}] :
                      n \in 0..MaxItems} :
        \A i, j \in 1..Len(es) : i # j => es[i].s # es[j].s}

\* what children[0] can evaluate to
Collections ==
    {Ret2(PyList(xs), None) : xs \in ItemLists}
        \cup {Ret2(PyDict(es), None) : es \in EntryLists}
        \cup {Ret2(None, None), Ret2(PyStr("abc"), None), Ret2(PyInt(5), None),
              Ret2(None, PyStr("e1")), Ret2(PyList(<<PyInt(1)>>), PyStr("e1")),
              Raise("child raised")}

States == {PyDict(<<Entry("items", PyInt(1))>>), PyDict(<<>>)}

ForeachInit ==
    /\ pc = "idle"
    /\ state = None
    /\ collection = Ret2(None, None)
    /\ script = <<>>
    /\ stack = <<>>
    /\ arr = <<>>
    /\ idx = 0
    /\ result = Unbound
    /\ res = Ret2(None, None)
    /\ ferror = None
    /\ bodyLog = <<>>
    /\ fout = Ret2(None, None)

\* lines 673-702: evaluate children[0], build arr, wrap the state
ForeachEnter ==
    /\ pc = "idle"
    /\ \E st \in States, c \in Collections :
        LET err == ForeachError(c)
            a == IF ~c.exc /\ err = None THEN ForeachArr(c.value) ELSE <<>>
        IN  /\ state' = st
            /\ collection' = c
            /\ res' = c
            /\ arr' = a
            /\ \E sc \in [1..Len(a) -> Behaviours] : script' = sc
            /\ IF c.exc
               THEN /\ pc' = "raised"
                    /\ fout' = Raise(c.msg)
                    /\ UNCHANGED <<ferror, stack, result>>
               ELSE /\ ferror' = err
                    /\ fout' = fout
                    /\ IF err = None
                       THEN /\ stack' = Wrap(st)
                            /\ result' = PyList(<<>>)
                            /\ pc' = "loop"
                       ELSE /\ pc' = "exit"
                            /\ UNCHANGED <<stack, result>>
    /\ UNCHANGED <<idx, bodyLog, applyVars, helperVars>>

\* lines 703-708: the next item is bound in a new frame on the stack
ForeachPush ==
    /\ pc = "loop"
    /\ idx < Len(arr)
    /\ idx' = idx + 1
    /\ stack' = Push(stack, Local(arr[idx + 1]))
    /\ pc' = "body"
    /\ UNCHANGED <<state, collection, script, arr, result, res, ferror, bodyLog,
                   fout, applyVars, helperVars>>

\* line 709: the body is evaluated against the stacked memory
ForeachBody ==
    /\ pc = "body"
    /\ LET r == BodyResult(stack, script[idx], idx)
       IN  /\ bodyLog' = Append(bodyLog, stack[Len(stack)])
           /\ IF r.exc
              THEN /\ pc' = "raised"
                   /\ fout' = Raise(r.msg)
                   /\ res' = res
              ELSE /\ pc' = "pop"
                   /\ res' = r
                   /\ fout' = fout
    /\ UNCHANGED <<state, collection, script, stack, arr, idx, result, ferror,
                   applyVars, helperVars>>

\* line 710
ForeachPop ==
    /\ pc = "pop"
    /\ stack' = Pop(stack)
    /\ pc' = "check"
    /\ UNCHANGED <<state, collection, script, arr, idx, result, res, ferror,
                   bodyLog, fout, applyVars, helperVars>>

\* lines 711-716: an error of the body ends foreach, a value is collected
ForeachCheck ==
    /\ pc = "check"
    /\ IF BodyFailed(res)
       THEN /\ ferror' = res.error
            /\ fout' = Ret2(None, res.error)
            /\ pc' = "returned"
            /\ result' = result
       ELSE /\ result' = PyList(Append(result.l, res.value))
            /\ pc' = "loop"
            /\ UNCHANGED <<ferror, fout>>
    /\ UNCHANGED <<state, collection, script, stack, arr, idx, res, bodyLog,
                   applyVars, helperVars>>

\* lines 718-720: value = result; return value, error
ForeachExit ==
    /\ \/ pc = "exit"
       \/ pc = "loop" /\ idx = Len(arr)
    /\ IF result = Unbound
       THEN /\ pc' = "raised"
            /\ fout' = Raise("UnboundLocalError: result")
       ELSE /\ pc' = "returned"
            /\ fout' = Ret2(result, ferror)
    /\ UNCHANGED <<state, collection, script, stack, arr, idx, result, res, ferror,
                   bodyLog, applyVars, helperVars>>

\* foreach is over: its locals are gone, the caller goes on
ForeachReturn ==
    /\ pc \in {"returned", "raised"}
    /\ pc' = "idle"
    /\ state' = None
    /\ collection' = Ret2(None, None)
    /\ script' = <<>>
    /\ stack' = <<>>
    /\ arr' = <<>>
    /\ idx' = 0
    /\ result' = Unbound
    /\ res' = Ret2(None, None)
    /\ ferror' = None
    /\ bodyLog' = <<>>
    /\ fout' = Ret2(None, None)
    /\ UNCHANGED <<applyVars, helperVars>>

(***************************************************************************)
(* The helper functions of FunctionUtils.  A call is one step: helper      *)
(* names the function, hargs holds its arguments and hret its outcome.     *)
(***************************************************************************)
\* a single returned value
Ret1(v) == Ret2(v, None)

HelperInit ==
    /\ helper = "idle"
    /\ hargs = <<>>
    /\ hret = Ret1(None)
    /\ hcalls = <<>>

\* the call name(args) with outcome r, having made the calls of log
CallLogged(name, args, r, log) ==
    /\ helper' = name
    /\ hargs' = args
    /\ hret' = r
    /\ hcalls' = log
    /\ UNCHANGED <<applyVars, foreachVars>>

\* the call name(args) with outcome r
Call(name, args, r) == CallLogged(name, args, r, <<>>)

\* the caller takes the outcome; the next call can start
HelperReturn ==
    /\ helper # "idle"
    /\ helper' = "idle"
    /\ hargs' = <<>>
    /\ hret' = Ret1(None)
    /\ hcalls' = <<>>
    /\ UNCHANGED <<applyVars, foreachVars>>

\* the values handed to the helpers
Falsy ==
    {None, PyBool(FALSE), PyInt(0), PyFloat(0), PyStr(""), PyList(<<>>),
     PyDict(<<>>)}

Truthy ==
    {PyBool(TRUE), PyInt(1), PyInt(2), PyFloat(FloatUnit), PyFloat(5),
     PyStr("a"), PyList(<<PyInt(1)>>), PyList(<<PyBool(TRUE)>>),
     PyList(<<PyInt(1), PyStr("a")>>), PyDict(<<Entry("a", PyInt(1))>>)}

Values == Falsy \cup Truthy

(***************************************************************************)
(* is_logic_true                                                           *)
(***************************************************************************)
\* Python's own truth value instead
is_logic_trueBug(instance) == PyBool(PyTruthy(instance))

is_logic_true(instance) ==
    IF instance.t = "bool" THEN instance
    ELSE IF instance.t = "null" THEN PyBool(FALSE)
    ELSE PyBool(TRUE)

IsLogicTrue ==
    /\ helper = "idle"
    /\ \E instance \in Values :
          Call("is_logic_true", <<instance>>, Ret1(is_logic_true(instance)))

(***************************************************************************)
(* is_equal                                                                *)
(***************************************************************************)
\* 0.00000001, in units of 10^-9
Tolerance == 10

Abs(k) == IF k < 0 THEN -k ELSE k

\* the nearest float of the int 2^53 + d: floats are 2 apart there, a tie
\* goes to the even mantissa
NearestEven(d) ==
    IF d % 2 = 0 THEN d ELSE IF (d + 1) % 4 = 0 THEN d + 1 ELSE d - 1

\* float(x) of a number
FloatOf(x) ==
    IF x.t = "float" THEN x
    ELSE IF x.h = 0 THEN PyFloat(x.n * FloatUnit)
    ELSE [t |-> "float", n |-> NearestEven(x.n) * FloatUnit, h |-> x.h,
          s |-> "", l |-> <<>>]

\* abs(float(a) - float(b)) < 0.00000001
WithinTolerance(a, b) ==
    /\ FloatOf(a).h = FloatOf(b).h
    /\ Abs(FloatOf(a).n - FloatOf(b).n) < Tolerance

\* the value of a number in units of 10^-9, without its multiples of 2^53
Units(x) == IF x.t = "float" THEN x.n ELSE x.n * FloatUnit

RECURSIVE PyEq(_, _)
\* operator.eq(a, b)
PyEq(a, b) ==
    IF IsNumber(a) /\ IsNumber(b) THEN a.h = b.h /\ Units(a) = Units(b)
    ELSE IF a.t # b.t THEN FALSE
    ELSE IF a.t = "str" THEN a.s = b.s
    ELSE IF a.t = "list"
    THEN /\ Len(a.l) = Len(b.l)
         /\ \A i \in 1..Len(a.l) : PyEq(a.l[i], b.l[i])
    ELSE IF a.t = "dict"
    THEN /\ Len(a.l) = Len(b.l)
         /\ \A i \in 1..Len(a.l) : \E j \in 1..Len(b.l) :
                a.l[i].s = b.l[j].s /\ PyEq(a.l[i].l[1], b.l[j].l[1])
    ELSE a = b

\* one null is enough
BothNoneBug(a, b) == a = None \/ b = None

\* args[0] is None and args[1] is None
BothNone(a, b) == a = None /\ b = None

is_equal(args) ==
    IF Len(args) = 0 THEN Ret1(PyBool(FALSE))
    ELSE IF Len(args) = 1 THEN Raise(IndexError)
    ELSE LET a == args[1]
             b == args[2]
         IN  IF a = None \/ b = None THEN Ret1(PyBool(BothNone(a, b)))
             ELSE IF a = PyList(<<>>) /\ b = PyList(<<>>)
             THEN Ret1(PyBool(TRUE))
             ELSE IF a = PyDict(<<>>) /\ b = PyDict(<<>>)
             THEN Ret1(PyBool(TRUE))
             ELSE IF IsNumber(a) /\ IsNumber(b) /\ WithinTolerance(a, b)
             THEN Ret1(PyBool(TRUE))
             ELSE Ret1(PyBool(PyEq(a, b)))

\* numbers around the tolerance and ints around 2^53
Numbers ==
    {PyInt(0), PyInt(1), PyInt(2), PyFloat(0), PyFloat(5), PyFloat(Tolerance),
     PyFloat(2 * Tolerance), PyFloat(FloatUnit), PyFloat(2 * FloatUnit),
     PyBig(0), PyBig(1), PyBig(2)}

EqualArgs ==
    UNION {[1..n -> Values \cup Numbers] : n \in 0..2}

IsEqual ==
    /\ helper = "idle"
    /\ \E args \in EqualArgs : Call("is_equal", <<args>>, is_equal(args))

(***************************************************************************)
(* The verifiers as helper functions: each is called with a value and the  *)
(* expression it came from.  The two list verifiers are given as outcomes, *)
(* because building their error message can raise.                         *)
(***************************************************************************)
verify_integer(value, expression, number) ==
    IF ~IsInteger(value) THEN PyStr(expression \o " is not an integer.")
    ELSE None

verify_number_or_string(value, expression, number) ==
    IF value.t = "null" \/ (~IsNumber(value) /\ value.t # "str")
    THEN PyStr(expression \o " is not string or number")
    ELSE None

verify_number_or_string_or_null(value, expression, number) ==
    IF /\ value.t # "null"
       /\ (value.t = "bool" \/ ~IsNumber(value))
       /\ value.t # "str"
    THEN PyStr(expression \o " is neither a number nor string.")
    ELSE None

\* the loop over the elements: the first element that is not a number ends
\* it in `elt + " is not a number in " + expression`, which adds a str to
\* an element that is not a str, or an Expression to a str
NumericElements(value) ==
    IF \A i \in 1..Len(value.l) : IsNumber(value.l[i]) THEN Ret1(None)
    ELSE LET i == CHOOSE k \in 1..Len(value.l) :
                      /\ ~IsNumber(value.l[k])
                      /\ \A j \in 1..(k - 1) : IsNumber(value.l[j])
         IN  IF value.l[i].t = "str"
             THEN Raise("can only concatenate str (not \"Expression\") to str")
             ELSE Raise("unsupported operand type(s) for +")

verify_numeric_list(value, expression, number) ==
    IF value.t # "list" THEN Ret1(PyStr(expression \o " is not a list."))
    ELSE NumericElements(value)

verify_numeric_list_or_number(value, expression, number) ==
    IF IsNumber(value) THEN Ret1(None)
    ELSE IF value.t # "list"
    THEN Ret1(PyStr(expression \o " is neither a list nor a number."))
    ELSE NumericElements(value)

verify_string_or_null(value, expression, number) ==
    IF value.t # "str" /\ value.t # "null"
    THEN PyStr(expression \o " is neither a string nor a null object.")
    ELSE None

verify_list(value, expression, number) ==
    IF value.t # "list" THEN PyStr(expression \o " is not a list.") ELSE None

\* isinstance(value, Iterable)
IsIterable(value) == value.t \in {"str", "list", "dict"}

verify_container(value, expression, number) ==
    IF value.t # "str" /\ ~IsIterable(value)
    THEN PyStr(expression \o " must be a string or list.")
    ELSE None

\* expression.to_string() of the verified expression
ExprText == "expr"

\* the values handed to the verifiers
Verified ==
    Values \cup Numbers \cup {PyList(<<None>>), PyList(<<PyInt(1), Nested>>)}

VerifyString ==
    /\ helper = "idle"
    /\ \E value \in Verified :
          Call("verify_string", <<value>>,
               Ret1(verify_string(value, ExprText, 0)))

VerifyStringOrNull ==
    /\ helper = "idle"
    /\ \E value \in Verified :
          Call("verify_string_or_null", <<value>>,
               Ret1(verify_string_or_null(value, ExprText, 0)))

VerifyList ==
    /\ helper = "idle"
    /\ \E value \in Verified :
          Call("verify_list", <<value>>,
               Ret1(verify_list(value, ExprText, 0)))

VerifyNotNull ==
    /\ helper = "idle"
    /\ \E value \in Verified :
          Call("verify_not_null", <<value>>,
               Ret1(verify_not_null(value, ExprText, 0)))

VerifyContainer ==
    /\ helper = "idle"
    /\ \E value \in Verified :
          Call("verify_container", <<value>>,
               Ret1(verify_container(value, ExprText, 0)))

VerifyNumber ==
    /\ helper = "idle"
    /\ \E value \in Verified :
          Call("verify_number", <<value>>,
               Ret1(verify_number(value, ExprText, 0)))

VerifyInteger ==
    /\ helper = "idle"
    /\ \E value \in Verified :
          Call("verify_integer", <<value>>,
               Ret1(verify_integer(value, ExprText, 0)))

VerifyNumberOrString ==
    /\ helper = "idle"
    /\ \E value \in Verified :
          Call("verify_number_or_string", <<value>>,
               Ret1(verify_number_or_string(value, ExprText, 0)))

VerifyNumberOrStringOrNull ==
    /\ helper = "idle"
    /\ \E value \in Verified :
          Call("verify_number_or_string_or_null", <<value>>,
               Ret1(verify_number_or_string_or_null(value, ExprText, 0)))

VerifyNumericList ==
    /\ helper = "idle"
    /\ \E value \in Verified :
          Call("verify_numeric_list", <<value>>,
               verify_numeric_list(value, ExprText, 0))

VerifyNumericListOrNumber ==
    /\ helper = "idle"
    /\ \E value \in Verified :
          Call("verify_numeric_list_or_number", <<value>>,
               verify_numeric_list_or_number(value, ExprText, 0))

(***************************************************************************)
(* access_index as a helper function                                       *)
(***************************************************************************)
Instances ==
    {None, PyList(<<>>), PyList(<<PyInt(5)>>), PyList(<<PyStr("a"), None>>),
     Nested, PyStr("a"), PyStr(""), PyInt(1), PyBool(TRUE),
     PyDict(<<>>), PyDict(<<Entry("a", PyInt(1))>>)}

Indexes ==
    {PyInt(-2), PyInt(-1), PyInt(0), PyInt(1), PyInt(2), PyInt(3),
     PyBool(TRUE), PyStr("a")}

AccessIndex ==
    /\ helper = "idle"
    /\ \E instance \in Instances, index \in Indexes :
          Call("access_index", <<instance, index>>,
               access_index(instance, index))

(***************************************************************************)
(* access_property.  A dict keeps its entries in insertion order.          *)
(***************************************************************************)
\* c.lower() of one character
LowerChar(c) ==
    CASE c = "A" -> "a"
      [] c = "B" -> "b"
      [] OTHER -> c

RECURSIVE Lower(_)
\* x.lower()
Lower(x) ==
    IF Len(x) = 0 THEN ""
    ELSE LowerChar(SubSeq(x, 1, 1)) \o Lower(SubSeq(x, 2, Len(x)))

\* property in instance
HasKey(instance, property) ==
    \E i \in 1..Len(instance.l) : instance.l[i].s = property

\* instance.get(property)
DictGet(instance, property) ==
    IF HasKey(instance, property)
    THEN instance.l[CHOOSE i \in 1..Len(instance.l) :
                        instance.l[i].s = property].l[1]
    ELSE None

\* list(filter(lambda x: x.lower() == property.lower(), instance.keys()))
SameLower(instance, property) ==
    LET hits == {i \in 1..Len(instance.l) :
                    Lower(instance.l[i].s) = Lower(property)}
        RECURSIVE Pick(_)
        Pick(i) ==
            IF i > Len(instance.l) THEN <<>>
            ELSE (IF i \in hits THEN <<instance.l[i].s>> ELSE <<>>)
                 \o Pick(i + 1)
    IN  Pick(1)

access_property(instance, property) ==
    IF instance.t = "null" THEN Ret2(None, None)
    ELSE IF instance.t = "dict"
    THEN LET value == DictGet(instance, property)
             prop == SameLower(instance, property)
         IN  IF value = None /\ Len(prop) > 0
             THEN Ret2(DictGet(instance, prop[1]), None)
             ELSE Ret2(value, None)
    ELSE Ret2(None, None)

PropertyNames == {"a", "A", "b", "B"}

\* the dicts of up to two entries with different keys
Dicts ==
    {PyDict(<<>>)}
    \cup {PyDict(<<Entry(k, v)>>) :
             k \in {"a", "A", "b"}, v \in {None, PyInt(1)}}
    \cup {PyDict(<<Entry(e[1], e[2]), Entry(e[3], e[4])>>) :
             e \in {x \in {"a", "A", "b"} \X {None, PyInt(1)}
                         \X {"a", "A", "b"} \X {None, PyInt(2)} :
                       x[1] # x[3]}}

AccessProperty ==
    /\ helper = "idle"
    /\ \E instance \in Dicts \cup {None, PyInt(1), PyStr("a"),
                                     PyList(<<PyInt(1)>>)},
          property \in PropertyNames :
          Call("access_property", <<instance, PyStr(property)>>,
               access_property(instance, property))

(***************************************************************************)
(* wrap_get_value.  The memory is a dict from paths to values; options     *)
(* holds null_substitution, a function of the path or None.                *)
(***************************************************************************)
\* state.get_value(path): the value at path, or None
get_value(memory, path) == DictGet(memory, path)

\* options.null_substitution(path) for the substitution function f
null_substitution(f, path) ==
    CASE f = "default" -> Ret1(PyStr(path \o " is undefined"))
      [] f = "zero" -> Ret1(PyInt(0))
      [] f = "null" -> Ret1(None)
      [] f = "unset" -> Raise("'NoneType' object is not callable")

\* the substitution is made whether or not one is configured
SubstitutesBug(f) == TRUE

\* options.null_substitution is not None
Substitutes(f) == f # "unset"

\* the outcome, and the calls made on state and options in call order
wrap_get_value(memory, path, f) ==
    LET found == get_value(memory, path)
        read == <<<<"get_value", path>>>>
    IN  IF found # None THEN [ret |-> Ret1(found), calls |-> read]
        ELSE IF Substitutes(f)
        THEN [ret |-> null_substitution(f, path),
              calls |-> Append(read, <<"null_substitution", path>>)]
        ELSE [ret |-> Ret1(None), calls |-> read]

Paths == {"a", "b", "a.b", "c[0]"}

\* the memories that hold up to two of the paths
Memories ==
    {PyDict(<<>>)}
    \cup {PyDict(<<Entry(k, v)>>) :
             k \in Paths, v \in {None, PyInt(0), PyStr("")}}
    \cup {PyDict(<<Entry("a", v), Entry("a.b", w)>>) :
             v \in {None, PyInt(1)}, w \in {None, PyBool(FALSE)}}

Substitutions == {"unset", "default", "zero", "null"}

WrapGetValue ==
    /\ helper = "idle"
    /\ \E memory \in Memories, path \in Paths, f \in Substitutions :
          CallLogged("wrap_get_value", <<memory, PyStr(path), PyStr(f)>>,
                     wrap_get_value(memory, path, f).ret,
                     wrap_get_value(memory, path, f).calls)

(***************************************************************************)
(* try_accumulate_path.  The expression is a chain, given as its nodes     *)
(* from the outermost one inwards: nodes[i + 1] is the child the walk      *)
(* descends to from nodes[i].  An accessor carries its property name and   *)
(* is the root when it is the last node; an element carries the outcome of *)
(* its subscript's try_evaluate; any other node ends the chain.  The       *)
(* outcome holds (path, left) as a list in value, left being the position  *)
(* of the residual node in the chain, and error.                           *)
(***************************************************************************)
Accessor(name) ==
    [expr_type |-> "Accessor", name |-> name, sub |-> Ret2(None, None)]
Element(sub) == [expr_type |-> "Element", name |-> "", sub |-> sub]
Other == [expr_type |-> "Json", name |-> "", sub |-> Ret2(None, None)]

RECURSIVE Rstrip(_)
\* x.rstrip(".")
Rstrip(x) ==
    IF Len(x) > 0 /\ SubSeq(x, Len(x), Len(x)) = "."
    THEN Rstrip(SubSeq(x, 1, Len(x) - 1))
    ELSE x

RECURSIVE Replace(_)
\* x.replace(".[", "[")
Replace(x) ==
    IF Len(x) < 2 THEN x
    ELSE IF SubSeq(x, 1, 2) = ".[" THEN "[" \o Replace(SubSeq(x, 3, Len(x)))
    ELSE SubSeq(x, 1, 1) \o Replace(SubSeq(x, 2, Len(x)))

\* the return after the loop: left is the node at position i, or None
PathResult(path, left, error) ==
    LET stripped == Replace(Rstrip(path))
    IN  Ret2(PyList(<<IF stripped = "" THEN None ELSE PyStr(stripped), left>>),
             error)

RECURSIVE AccumulateLoop(_, _, _, _)
AccumulateLoop(nodes, i, path, error) ==
    IF i > Len(nodes) THEN PathResult(path, None, error)
    ELSE IF nodes[i].expr_type = "Accessor"
    THEN AccumulateLoop(nodes, i + 1, nodes[i].name \o "." \o path, error)
    ELSE IF nodes[i].expr_type = "Element"
    THEN LET sub == nodes[i].sub
         IN  IF sub.exc THEN sub
             ELSE IF sub.error # None
             THEN Ret2(PyList(<<None, None>>), sub.error)
             ELSE IF IsNumber(sub.value) /\ IsInteger(sub.value)
             THEN AccumulateLoop(nodes, i + 1,
                      "[" \o ToString(ToInt(sub.value)) \o "]." \o path,
                      sub.error)
             ELSE IF sub.value.t = "str"
             THEN AccumulateLoop(nodes, i + 1,
                      "['" \o sub.value.s \o "']." \o path, sub.error)
             \* left = None comes before left.children[1].to_string()
             ELSE Raise("'NoneType' object has no attribute 'children'")
    ELSE PathResult(path, PyInt(i), error)

try_accumulate_path(nodes) == AccumulateLoop(nodes, 1, "", None)

Names == {"a", "b"}

\* what the try_evaluate of a subscript gives
Subscripts ==
    {Ret2(PyInt(0), None), Ret2(PyInt(2), None), Ret2(PyBool(TRUE), None),
     Ret2(PyFloat(2 * FloatUnit), None), Ret2(PyFloat(5), None),
     Ret2(PyStr("k"), None), Ret2(PyStr("x.y"), None), Ret2(PyStr(".["), None),
     Ret2(None, None), Ret2(PyList(<<PyInt(1)>>), None),
     Ret2(PyDict(<<>>), None), Ret2(None, PyStr("e")), Raise("boom")}

Nodes ==
    {Accessor(x) : x \in Names} \cup {Element(x) : x \in Subscripts}
    \cup {Other}

\* the chains: an element has a child, a node of another type has none
Chains ==
    {c \in UNION {[1..n -> Nodes] : n \in 1..MaxDepth} :
        /\ c[Len(c)].expr_type # "Element"
        /\ \A i \in 1..(Len(c) - 1) : c[i] # Other}

TryAccumulatePath ==
    /\ helper = "idle"
    /\ \E nodes \in Chains :
          Call("try_accumulate_path", <<nodes>>, try_accumulate_path(nodes))

(***************************************************************************)
(* The validators.  A return type is a set of flags held as an int         *)
(* (Boolean 1, Number 2, Object 4, String 8, Array 16); a node is given as *)
(* the return types of its children.  A validator returns None or raises.  *)
(***************************************************************************)
Boolean == 1
Number == 2
Object == 4
String == 8
Array == 16

RECURSIVE BitAnd(_, _)
\* a & b
BitAnd(a, b) ==
    IF a = 0 \/ b = 0 THEN 0
    ELSE (a % 2) * (b % 2) + 2 * BitAnd(a \div 2, b \div 2)

\* return_type == (1,) and its like compare a flag with a tuple and are
\* False, so names is always "Array"
build_type_validator_error(return_type, child_expr, expr) ==
    "{" \o child_expr \o "} is not a {Array} expression in {" \o expr \o "}."

\* a child typed Object is rejected as well
MismatchBug(expected, actual) == BitAnd(expected, actual) = 0

\* child.return_type & ReturnType.Object == 0 and
\* return_type & child.return_type == 0
Mismatch(expected, actual) ==
    BitAnd(actual, Object) = 0 /\ BitAnd(expected, actual) = 0

validate_arity_and_any_type(kids, min_arity, max_arity, return_type) ==
    IF Len(kids) < min_arity
    THEN Raise(ExprText \o " should have at least " \o ToString(min_arity)
               \o " children.")
    ELSE IF Len(kids) > max_arity
    THEN Raise(ExprText \o " can't have more than " \o ToString(max_arity)
               \o " children.")
    ELSE IF /\ BitAnd(return_type, Object) = 0
            /\ \E i \in 1..Len(kids) : Mismatch(return_type, kids[i])
    THEN LET i == CHOOSE k \in 1..Len(kids) :
                      /\ Mismatch(return_type, kids[k])
                      /\ \A j \in 1..(k - 1) : ~Mismatch(return_type, kids[j])
         IN  Raise(build_type_validator_error(return_type, ChildText(i - 1),
                                              ExprText))
    ELSE Ret1(None)

\* sys.maxsize, as far as 32 bits go
MaxSize == 2147483647

ReturnTypes == {Boolean, Number, Object, String, Array, Number + String}

\* the return types of the children of a node
TypeLists == UNION {[1..n -> ReturnTypes] : n \in 0..MaxKids}

ValidateArityAndAnyType ==
    /\ helper = "idle"
    /\ \E kids \in TypeLists, min_arity \in 1..2,
          max_arity \in {1, 2, MaxSize}, return_type \in ReturnTypes :
          /\ min_arity <= max_arity
          /\ Call("validate_arity_and_any_type",
                  <<kids, min_arity, max_arity, return_type>>,
                  validate_arity_and_any_type(kids, min_arity, max_arity,
                                              return_type))

\* an expected type Object is held against the child as well
OrderMismatchBug(child_type, child_return_type) ==
    /\ BitAnd(child_return_type, Object) = 0
    /\ BitAnd(child_type, child_return_type) = 0

\* the test of a position in validate_order
OrderMismatch(child_type, child_return_type) ==
    /\ BitAnd(child_type, Object) = 0
    /\ BitAnd(child_return_type, Object) = 0
    /\ BitAnd(child_type, child_return_type) = 0

\* optional is a list of types or None, types the required types
validate_order(kids, optional, types) ==
    LET opt == IF optional = None THEN <<>> ELSE optional.l
        present == {j \in 1..Len(opt) : j + Len(types) <= Len(kids)}
    IN  IF Len(kids) < Len(types) \/ Len(kids) > Len(types) + Len(opt)
        THEN IF Len(opt) = 0
             THEN Raise("{" \o ExprText \o "} should have {"
                        \o ToString(Len(types)) \o "} children.")
             ELSE Raise("{" \o ExprText \o "} should have between {"
                        \o ToString(Len(types)) \o "} and {"
                        \o ToString(Len(types) + Len(opt)) \o "} children.")
        ELSE IF \E i \in 1..Len(types) : OrderMismatch(types[i], kids[i])
        THEN LET i == CHOOSE k \in 1..Len(types) :
                          /\ OrderMismatch(types[k], kids[k])
                          /\ \A j \in 1..(k - 1) :
                                 ~OrderMismatch(types[j], kids[j])
             IN  Raise(build_type_validator_error(types[i], ChildText(i - 1),
                                                  ExprText))
        ELSE IF \E j \in present : OrderMismatch(opt[j], kids[j + Len(types)])
        THEN LET j == CHOOSE k \in present :
                          /\ OrderMismatch(opt[k], kids[k + Len(types)])
                          /\ \A m \in 1..(k - 1) :
                                 ~OrderMismatch(opt[m], kids[m + Len(types)])
             IN  Raise(build_type_validator_error(
                           opt[j], ChildText(j + Len(types) - 1), ExprText))
        ELSE Ret1(None)

\* the types a signature asks for, and those of the children it is held to
OrderTypes == {Number, String, Object}
OrderKids ==
    UNION {[1..n -> {Boolean, Number, Object, String}] : n \in 0..MaxKids}

RequiredLists == UNION {[1..n -> OrderTypes] : n \in 0..2}

OptionalLists ==
    {None, PyList(<<>>), PyList(<<Number>>), PyList(<<String>>),
     PyList(<<Object>>), PyList(<<Number, String>>)}

ValidateOrder ==
    /\ helper = "idle"
    /\ \E kids \in OrderKids, optional \in OptionalLists,
          types \in RequiredLists :
          Call("validate_order", <<kids, optional, types>>,
               validate_order(kids, optional, types))

(***************************************************************************)
(* sortBy and sortByDescending: the raw evaluator built by sort_by.        *)
(***************************************************************************)
\* the characters of the texts of the model, by code point
CodeOrder ==
    " '+,-./" \o Digits \o ":" \o Uppercase \o "[]_" \o Lowercase \o "{}é"

RECURSIVE StrLess(_, _)
\* x < y on strings: the first differing character decides, a proper prefix
\* is smaller
StrLess(x, y) ==
    IF Len(y) = 0 THEN FALSE
    ELSE IF Len(x) = 0 THEN TRUE
    ELSE IF SubSeq(x, 1, 1) = SubSeq(y, 1, 1)
    THEN StrLess(SubSeq(x, 2, Len(x)), SubSeq(y, 2, Len(y)))
    ELSE IndexIn(CodeOrder, SubSeq(x, 1, 1)) < IndexIn(CodeOrder, SubSeq(y, 1, 1))

\* a < b is defined: two numbers or two strings (a list is not among the
\* keys of the model)
Orderable(a, b) ==
    \/ a.t \in {"int", "bool"} /\ b.t \in {"int", "bool"}
    \/ a.t = "str" /\ b.t = "str"

\* a < b on two orderable keys
KeyLess(a, b) ==
    IF a.t = "str" THEN StrLess(a.s, b.s)
    ELSE a.h < b.h \/ (a.h = b.h /\ a.n < b.n)

\* x[property_name]: a key of a dict, an index of a list or a string
Subscript(x, property_name) ==
    CASE x.t = "dict" /\ property_name.t = "str" ->
            IF HasKey(x, property_name.s)
            THEN Ret1(DictGet(x, property_name.s))
            ELSE Raise("'" \o property_name.s \o "'")
      [] x.t = "dict" /\ property_name.t \in {"null", "int", "bool"} ->
            Raise(StrOf(property_name))
      [] x.t = "dict" -> Raise("unhashable type")
      [] x.t \in {"list", "str"} /\ property_name.t \in {"int", "bool"} ->
            LET size == IF x.t = "list" THEN Len(x.l) ELSE Len(x.s)
                at == IF property_name.n < 0 THEN property_name.n + size
                      ELSE property_name.n
            IN  IF at < 0 \/ at >= size THEN Raise("index out of range")
                ELSE IF x.t = "list" THEN Ret1(x.l[at + 1])
                ELSE Ret1(PyStr(SubSeq(x.s, at + 1, at + 1)))
      [] x.t \in {"list", "str"} -> Raise("indices must be integers")
      [] OTHER -> Raise("object is not subscriptable")

\* key(x) for key=str (by_property FALSE) and for
\* key=lambda x: x[property_name]
SortKey(x, by_property, property_name) ==
    IF by_property THEN Subscript(x, property_name) ELSE Ret1(PyStr(StrOf(x)))

\* an element is put before the elements it is not greater than
GoesBeforeBug(a, b, is_descending) ==
    IF is_descending THEN ~KeyLess(a, b) ELSE ~KeyLess(b, a)

\* the element of key a goes before the one of key b: a < b, b < a under
\* reverse=True
GoesBefore(a, b, is_descending) ==
    IF is_descending THEN KeyLess(b, a) ELSE KeyLess(a, b)

RECURSIVE Insert(_, _, _, _)
\* x put into the sorted ys, after every element it does not go before
Insert(ys, x, keys, is_descending) ==
    IF Len(ys) = 0 THEN <<x>>
    ELSE IF GoesBefore(keys[x], keys[ys[1]], is_descending)
    THEN <<x>> \o ys
    ELSE <<ys[1]>> \o Insert(Tail(ys), x, keys, is_descending)

RECURSIVE SortLoop(_, _, _, _)
\* the positions 1..Len(keys) in sorted order: a stable sort
SortLoop(keys, i, ys, is_descending) ==
    IF i > Len(keys) THEN ys
    ELSE SortLoop(keys, i + 1, Insert(ys, i, keys, is_descending),
                  is_descending)

\* sorted(xs, key=..., reverse=is_descending): the keys are computed first,
\* element by element, then compared
\* the elements of xs at the positions of order
Ordered(xs, order) == PyList([i \in 1..Len(xs) |-> xs[order[i]]])

\* the list sorted by its keys, TypeError when two keys have no order
SortedByKeys(xs, keys, is_descending) ==
    IF \E i, j \in 1..Len(xs) : i # j /\ ~Orderable(keys[i], keys[j])
    THEN Raise("'<' not supported between instances")
    ELSE Ret1(Ordered(xs, SortLoop(keys, 1, <<>>, is_descending)))

\* the first key that could not be computed raises
SortedBy(xs, ks, failed, is_descending) ==
    IF failed # {}
    THEN Raise(ks[CHOOSE i \in failed : \A j \in failed : i <= j].msg)
    ELSE SortedByKeys(xs, [i \in 1..Len(xs) |-> ks[i].value], is_descending)

\* the list and the outcomes of key() on its elements
Keyed(xs, ks, is_descending) ==
    SortedBy(xs, ks, {i \in 1..Len(xs) : ks[i].exc}, is_descending)

sorted(xs, by_property, property_name, is_descending) ==
    Keyed(xs,
          [i \in 1..Len(xs) |-> SortKey(xs[i], by_property, property_name)],
          is_descending)

\* value = result; return value, error
WithError(r, error) == IF r.exc THEN r ELSE Ret2(r.value, error)

\* the anonymous function of sort_by(is_descending) on a node of one or two
\* children: ret is its outcome, evaluated the children it evaluated
sort_by(is_descending, kids) ==
    LET first == kids[1]
        array == first.value
    IN  IF first.exc THEN [ret |-> Raise(first.msg), evaluated |-> <<1>>]
        ELSE IF first.error # None
        THEN [ret |-> Ret2(None, first.error), evaluated |-> <<1>>]
        ELSE IF array.t # "list"
        THEN [ret |-> Ret2(None, PyStr(ChildText(0) \o " is not an array")),
              evaluated |-> <<1>>]
        ELSE IF Len(kids) = 1
        THEN [ret |-> sorted(array.l, FALSE, None, is_descending),
              evaluated |-> <<1>>]
        ELSE IF kids[2].exc
        THEN [ret |-> Raise(kids[2].msg), evaluated |-> <<1, 2>>]
        ELSE [ret |-> WithError(sorted(array.l, TRUE,
                                       IF kids[2].error = None
                                              /\ kids[2].value = None
                                       THEN PyStr("")
                                       ELSE kids[2].value,
                                       is_descending),
                                kids[2].error),
              evaluated |-> <<1, 2>>]

\* the elements of the lists: texts and numbers with equal string forms,
\* objects with equal, different, missing and unorderable properties
SortElements ==
    {PyInt(1), PyStr("1"), PyInt(10), PyStr("b"),
     PyDict(<<Entry("x", PyInt(1)), Entry("y", PyStr("a"))>>),
     PyDict(<<Entry("x", PyInt(1)), Entry("y", PyStr("b"))>>),
     PyDict(<<Entry("x", PyInt(2)), Entry("y", PyStr("a"))>>),
     PyDict(<<Entry("x", PyStr("s"))>>)}

SortLists == UNION {[1..n -> SortElements] : n \in 0..MaxItems}

\* what the first child can evaluate to
SortFirst ==
    {Ret2(PyList(xs), None) : xs \in SortLists}
    \cup {Ret2(x, None) : x \in {None, PyInt(5), PyStr("abc"), PyDict(<<>>)}}
    \cup {Ret2(None, PyStr("e1")), Raise("boom")}

\* what the property-name child can evaluate to
SortSecond ==
    {Ret2(x, None) : x \in {PyStr("x"), PyStr("y"), None, PyInt(0)}}
    \cup {Ret2(None, PyStr("e2")), Raise("boom")}

SortKids ==
    {<<a>> : a \in SortFirst} \cup {<<a, b>> : a \in SortFirst, b \in SortSecond}

\* the node is evaluated by the raw evaluator: no combinator is involved
Sort(k, is_descending) ==
    /\ kind = "idle"
    /\ \E kids \in SortKids :
          LET r == sort_by(is_descending, kids)
          IN  Evaluate(k, kids, "none", "none",
                       [out |-> r.ret,
                        ec |-> [NoEc EXCEPT !.evaluated = r.evaluated],
                        calls |-> <<>>])

SortBy == Sort("sortBy", FALSE)

SortByDescending == Sort("sortByDescending", TRUE)

(***************************************************************************)
(* Specifications.                                                         *)
(***************************************************************************)
Init == ApplyInit /\ ForeachInit /\ HelperInit

Next ==
    \/ Apply
    \/ ApplyWithError
    \/ ApplySequence
    \/ ApplySequenceWithError
    \/ Return

\* the nodes built with the apply combinators
Spec == Init /\ [][Next]_vars

ForeachNext ==
    \/ ForeachEnter
    \/ ForeachPush
    \/ ForeachBody
    \/ ForeachPop
    \/ ForeachCheck
    \/ ForeachExit
    \/ ForeachReturn

\* the foreach evaluator
SpecForeach == Init /\ [][ForeachNext]_vars

HelperNext ==
    \/ IsLogicTrue
    \/ IsEqual
    \/ AccessIndex
    \/ AccessProperty
    \/ WrapGetValue
    \/ TryAccumulatePath
    \/ ValidateArityAndAnyType
    \/ ValidateOrder
    \/ VerifyString
    \/ VerifyStringOrNull
    \/ VerifyList
    \/ VerifyNotNull
    \/ VerifyContainer
    \/ VerifyNumber
    \/ VerifyInteger
    \/ VerifyNumberOrString
    \/ VerifyNumberOrStringOrNull
    \/ VerifyNumericList
    \/ VerifyNumericListOrNumber
    \/ HelperReturn

BuiltinNext ==
    \/ DataUri
    \/ FormatTicks
    \/ Ticks
    \/ FormatTicksOfTicks
    \/ UriPort
    \/ SortBy
    \/ SortByDescending
    \/ Return

\* the built-in functions
SpecBuiltins == Init /\ [][BuiltinNext]_vars

\* the helper functions, one call at a time
SpecHelpers == Init /\ [][HelperNext]_vars

(***************************************************************************)
(* Properties of the apply combinators (checked under Spec).               *)
(***************************************************************************)
MinOf(S) == CHOOSE x \in S : \A y \in S : x <= y

Evaluated == kind # "idle"

\* the children (one-based) whose evaluation raised or returned an error
FailingKids ==
    {i \in 1..Len(children) : children[i].exc \/ children[i].error # None}

\* the children whose successfully produced value the verify function rejects
RejectedKids ==
    {i \in 1..Len(children) :
        /\ verify # "none"
        /\ i \notin FailingKids
        /\ VerifyCall(verify, children[i].value, ChildText(i - 1), i - 1) # None}

\* the first child at which evaluate_children has a reason to stop, 0 if none
FirstStop ==
    IF FailingKids \cup RejectedKids = {} THEN 0
    ELSE MinOf(FailingKids \cup RejectedKids)

ValuesBefore(k) == [i \in 1..(k - 1) |-> children[i].value]

ZeroBased(k) == [i \in 1..k |-> i - 1]

\* C1: Exclusivity. The (value, error) pair returned by an evaluator built with
\* apply, apply_with_error, apply_sequence or apply_sequence_with_error never
\* has both components non-null.
C1_Exclusivity ==
    (Evaluated /\ ~out.exc) => ~(out.value # None /\ out.error # None)

C3_VerifyRejectionIsError ==
    (Evaluated /\ verify # "none") =>
        LET k == FirstStop
            last == IF k = 0 THEN Len(children)
                    ELSE IF k \in RejectedKids THEN k ELSE k - 1
        IN  /\ ec.vlog = [i \in 1..last |-> <<children[i].value, i - 1, i - 1>>]
            /\ (k # 0 /\ k \in RejectedKids) =>
                  /\ ec.error = VerifyCall(verify, children[k].value,
                                           ChildText(k - 1), k - 1)
                  /\ ec.error # None
                  /\ ec.args = ValuesBefore(k)
                  /\ ec.evaluated = ZeroBased(k)
                  /\ fnCalls = <<>>
                  /\ out = Ret2(None, ec.error)

C3_Witness ==
    /\ Evaluated
    /\ verify = "verify_number"
    /\ Len(children) = 3
    /\ children[1] = Ret2(PyInt(5), None)
    /\ children[2] = Ret2(PyStr("a"), None)
    /\ children[3] = Ret2(PyInt(1), None)
    /\ ec.error = PyStr("child1 is not a number.")
    /\ ec.args = <<PyInt(5)>>
    /\ ec.vlog = <<<<PyInt(5), 0, 0>>, <<PyStr("a"), 1, 1>>>>
    /\ ec.evaluated = <<0, 1>>

C5_LeftFold ==
    (kind = "apply_sequence" /\ ~ec.exc /\ ec.error = None) =>
        LET a == ec.args
            n == Len(a)
        IN  /\ n = 1 => (fnCalls = <<>> /\ out = Ret2(a[1], None))
            /\ (n >= 2 /\ out.error = None) =>
                  /\ Len(fnCalls) = n - 1
                  /\ fnCalls[1] = <<a[1], a[2]>>
                  /\ \A j \in 2..(n - 1) :
                        fnCalls[j] = <<CallValue(fn, fnCalls[j - 1]).value, a[j + 1]>>
                  /\ out = Ret2(CallValue(fn, fnCalls[n - 1]).value, None)
            /\ (n = 3 /\ \A i \in 1..3 : a[i].t = "int") =>
                  out = Ret2(PyInt((a[1].n - a[2].n) - a[3].n), None)

\* sub(5, 1, 1) = (5 - 1) - 1 = 3, not 5 - (1 - 1)
C5_Witness ==
    /\ kind = "apply_sequence"
    /\ ec.args = <<PyInt(5), PyInt(1), PyInt(1)>>
    /\ fnCalls = <<<<PyInt(5), PyInt(1)>>, <<PyInt(4), PyInt(1)>>>>
    /\ out = Ret2(PyInt(3), None)

\* the binary steps of the fold that returned a non-null error
FailedSteps ==
    {j \in 1..Len(fnCalls) :
        ~CallPair(fn, fnCalls[j]).exc /\ CallPair(fn, fnCalls[j]).error # None}

\* C6: apply_sequence_with_error performs the same left fold but terminates
\* early: as soon as a binary step returns a non-null error, that error is
\* returned, fn is not called for the remaining arguments, and the accumulated
\* value of the earlier steps is not returned as the result.
C6_EarlyTermination ==
    (kind = "apply_sequence_with_error" /\ ~ec.exc /\ ec.error = None
        /\ Len(ec.args) >= 2) =>
        LET a == ec.args
        IN  /\ fnCalls[1] = <<a[1], a[2]>>
            /\ \A j \in 2..Len(fnCalls) :
                  fnCalls[j] = <<CallPair(fn, fnCalls[j - 1]).value, a[j + 1]>>
            /\ \A j \in FailedSteps :
                  /\ j = Len(fnCalls)
                  /\ out.error = CallPair(fn, fnCalls[j]).error
                  /\ out.value = CallPair(fn, fnCalls[j]).value
                  /\ out.value # fnCalls[j][1]
            /\ (FailedSteps = {} /\ out.error = None) =>
                  /\ Len(fnCalls) = Len(a) - 1
                  /\ out.value = CallPair(fn, fnCalls[Len(a) - 1]).value

\* Nested[0][5] fails at the second step; Nested[5][..] at the first of two
C6_Witness ==
    /\ kind = "apply_sequence_with_error"
    /\ ec.args = <<Nested, PyInt(5), PyInt(1)>>
    /\ Len(fnCalls) = 1
    /\ out.value = None
    /\ out.error = PyStr("5 is out of range for [[5, 1], 1]")

(***************************************************************************)
(* Properties of foreach (checked under SpecForeach).                      *)
(***************************************************************************)
Over == pc \in {"returned", "raised"}

\* C7: Higher-order stack discipline. Every frame foreach pushes is popped on
\* every exit path (normal completion, a per-element error return, an
\* exception thrown by the body): at most one iterator frame is on the stack
\* at any time, the stack is back to the base frame alone whenever foreach is
\* over, and the base frame is the caller's unmodified state.
C7_StackDiscipline ==
    /\ Len(stack) <= 2
    /\ stack # <<>> => stack[1] = state
    /\ Over => Len(stack) <= 1

\* the items foreach is to iterate, read off children[0]'s value
ExpectedItems ==
    LET c == collection.value
    IN  IF c.t = "list" THEN c.l
        ELSE [i \in 1..Len(c.l) |->
                PyDict(<<Entry("key", PyStr(c.l[i].s)), Entry("value", c.l[i].l[1])>>)]

\* C8: foreach over a list of n elements evaluates the body once per element,
\* in list order, with the iterator name bound to that element in the top
\* frame, and when no body evaluation fails returns the n results in the same
\* order with a null error (an empty list gives an empty list); over a map it
\* iterates the entries in the map's order, binding {key, value} pairs.
C8_OncePerElementInOrder ==
    (pc \notin {"idle", "exit"} /\ ~collection.exc /\ ferror = None) =>
        /\ Len(bodyLog) <= Len(ExpectedItems)
        /\ bodyLog = [i \in 1..Len(bodyLog) |->
                        PyDict(<<Entry(iterator_name, ExpectedItems[i])>>)]
        /\ pc = "body" => (Len(stack) = 2 /\ Len(bodyLog) = idx - 1)
        /\ (pc = "returned" /\ fout.error = None) =>
              /\ Len(bodyLog) = Len(ExpectedItems)
              /\ fout = Ret2(PyList(ExpectedItems), None)

C8_Witness ==
    /\ pc = "returned"
    /\ collection = Ret2(PyList(<<PyInt(1), PyStr("a"), PyStr("a")>>), None)
    /\ Len(bodyLog) = 3
    /\ bodyLog[2] = PyDict(<<Entry("x", PyStr("a"))>>)
    /\ fout = Ret2(PyList(<<PyInt(1), PyStr("a"), PyStr("a")>>), None)

\* the elements at which the body returns an error
BadElements == {i \in 1..Len(script) : script[i] \in {"err", "errval"}}

\* the elements at which the body does not return a value
Unfinished == {i \in 1..Len(script) : script[i] # "ok"}

\* C9: if the body returns an error for some element, foreach aborts at that
\* element: it returns (null, that error), the results collected before are
\* discarded, and the body is not evaluated for any later element.
C9_BodyErrorAborts ==
    (Unfinished # {} /\ MinOf(Unfinished) \in BadElements) =>
        LET k == MinOf(Unfinished)
        IN  /\ Len(bodyLog) <= k
            /\ pc = "returned" =>
                  /\ fout = Ret2(None, PyStr("body failed at " \o ToString(k)))
                  /\ Len(bodyLog) = k
                  /\ idx = k

C9_Witness ==
    /\ pc = "returned"
    /\ Len(arr) = 3
    /\ script = <<"ok", "errval", "ok">>
    /\ result = PyList(<<arr[1]>>)
    /\ fout = Ret2(None, PyStr("body failed at 2"))
    /\ Len(bodyLog) = 2

\* children[0] returned, but not an iterable list or map without an error
NotIterable ==
    /\ ~collection.exc
    /\ collection.error # None \/ collection.value.t \notin {"list", "dict"}

\* C10: when the collection child does not yield an iterable list or map (a
\* string, a number, null, or its own evaluation fails), foreach returns
\* (null, error): it does not raise an exception and does not return a list.
C10_NotIterableIsError ==
    (Over /\ NotIterable) =>
        (~fout.exc /\ fout.value = None /\ fout.error # None)

(***************************************************************************)
(* Properties of the helper functions (checked under SpecHelpers).         *)
(***************************************************************************)
\* C11: is_logic_true(x) is false exactly when x is the boolean false or
\* null; it is true for every other value, 0, "", [] and {} included.
C11_LogicTruth ==
    helper = "is_logic_true" =>
        /\ ~hret.exc
        /\ hret.value \in {PyBool(TRUE), PyBool(FALSE)}
        /\ hret.value = PyBool(FALSE) <=> hargs[1] \in {PyBool(FALSE), None}

\* is_logic_true was called with 0, "", [] or {} and returned true
C11_Witness ==
    /\ helper = "is_logic_true"
    /\ hargs[1] \in {PyInt(0), PyStr(""), PyList(<<>>), PyDict(<<>>)}
    /\ hret.value = PyBool(TRUE)

\* is_equal was called with the two values a and b
EqualCalled == helper = "is_equal" /\ Len(hargs[1]) = 2

\* C12: is_equal([a, b]) is true for two nulls, false for exactly one null
\* (null against an empty list or map included), true for two empty lists
\* and for two empty maps, false for an empty list against an empty map,
\* and the same with a and b swapped.
C12_NullAndEmpty ==
    EqualCalled =>
        LET a == hargs[1][1]
            b == hargs[1][2]
            Empty == {PyList(<<>>), PyDict(<<>>)}
        IN  /\ ~hret.exc
            /\ a = None /\ b = None => hret.value = PyBool(TRUE)
            /\ (a = None) # (b = None) => hret.value = PyBool(FALSE)
            /\ a \in Empty /\ b \in Empty => hret.value = PyBool(a = b)
            /\ hret = is_equal(<<b, a>>)

\* null was compared with an empty list or an empty map
C12_Witness ==
    /\ EqualCalled
    /\ hargs[1][1] = None
    /\ hargs[1][2] \in {PyList(<<>>), PyDict(<<>>)}
    /\ hret.value = PyBool(FALSE)

\* |a - b| < 0.00000001, computed on the values themselves
ExactlyWithin(a, b) ==
    a.h = b.h /\ Abs(Units(a) - Units(b)) < Tolerance

\* C13: for two numbers a and b (int or float) is_equal([a, b]) is true if
\* and only if |a - b| is strictly below 0.00000001.
C13_ToleranceEquality ==
    EqualCalled /\ hargs[1][1].t \in {"int", "float"}
                /\ hargs[1][2].t \in {"int", "float"} =>
        /\ ~hret.exc
        /\ hret.value = PyBool(ExactlyWithin(hargs[1][1], hargs[1][2]))

\* a number verifier was called with a boolean, or a list verifier with a
\* list that holds a boolean
BooleanVerified ==
    \/ /\ helper \in {"verify_number", "verify_integer",
                      "verify_number_or_string",
                      "verify_number_or_string_or_null",
                      "verify_numeric_list_or_number"}
       /\ hargs[1].t = "bool"
    \/ /\ helper \in {"verify_numeric_list", "verify_numeric_list_or_number"}
       /\ hargs[1].t = "list"
       /\ \E i \in 1..Len(hargs[1].l) : hargs[1].l[i].t = "bool"

\* C14: booleans are not numbers for the verifiers: verify_number,
\* verify_integer, verify_number_or_string, verify_number_or_string_or_null
\* and verify_numeric_list_or_number called with a boolean, and
\* verify_numeric_list called with a list that holds a boolean, return an
\* error that is not null.
C14_BooleansAreNotNumbers ==
    BooleanVerified => ~hret.exc /\ hret.value # None

\* C15: access_index(inst, i): a null inst gives (null, no error) for every
\* i; a list and 0 <= i < len give (inst[i], no error); a list and an i
\* that is negative or >= len give (null, an out-of-range error), never an
\* element counted from the end.
C15_AccessIndex ==
    helper = "access_index" =>
        LET inst == hargs[1]
            i == hargs[2]
        IN  /\ inst = None => hret = Ret2(None, None)
            /\ inst.t = "list" /\ i.t = "int" =>
                   /\ ~hret.exc
                   /\ 0 <= i.n /\ i.n < Len(inst.l) =>
                          hret = Ret2(inst.l[i.n + 1], None)
                   /\ i.n < 0 \/ i.n >= Len(inst.l) =>
                          /\ hret.value = None
                          /\ hret.error =
                                PyStr(ToString(i.n) \o " is out of range for "
                                        \o StrOf(inst))

\* a list of two was read at -1: an error, not its last element
C15_Witness ==
    /\ helper = "access_index"
    /\ hargs[1].t = "list"
    /\ Len(hargs[1].l) = 2
    /\ hargs[2] = PyInt(-1)
    /\ hret.error # None

\* C16: access_index on an instance that is neither null nor a list (a map,
\* a number, a boolean, a string) returns
\* (null, "<inst> is not a collection."): an error value, never an
\* exception, whatever the type of inst.
C16_NotACollection ==
    helper = "access_index" /\ hargs[1].t \notin {"null", "list"} =>
        /\ ~hret.exc
        /\ hret.value = None
        /\ hret.error = PyStr(StrOf(hargs[1]) \o " is not a collection.")

\* the values the dict holds under the keys that equal name in lowercase
FallbackValues(inst, name) ==
    {inst.l[i].l[1] : i \in {j \in 1..Len(inst.l) :
                                Lower(inst.l[j].s) = Lower(name)}}

\* C17: access_property never returns an error: for a map it returns
\* inst[name] when that key is present, otherwise the value of a key whose
\* lowercase equals the lowercase of name, otherwise null; for null and for
\* anything that is not a map it returns null.
C17_AccessProperty ==
    helper = "access_property" =>
        LET inst == hargs[1]
            name == hargs[2].s
        IN  /\ ~hret.exc
            /\ hret.error = None
            /\ inst.t # "dict" => hret.value = None
            /\ inst.t = "dict" =>
                   IF HasKey(inst, name)
                   THEN hret.value = DictGet(inst, name)
                   ELSE IF FallbackValues(inst, name) # {}
                   THEN hret.value \in FallbackValues(inst, name)
                   ELSE hret.value = None

\* C18: the case-insensitive fallback is used only when the exact key is
\* absent: whenever the map holds the exact key name, the value stored
\* under it is returned, null included, and a key that differs in case is
\* not consulted.
C18_ExactKeyFirst ==
    helper = "access_property" /\ hargs[1].t = "dict"
                               /\ HasKey(hargs[1], hargs[2].s) =>
        hret = Ret2(DictGet(hargs[1], hargs[2].s), None)

\* the methods wrap_get_value called
Called == {hcalls[i][1] : i \in 1..Len(hcalls)}

\* C19: wrap_get_value returns state.get_value(path) whenever that is not
\* null, without calling null_substitution; when it is null it returns
\* options.null_substitution(path) if one is configured and null if not;
\* state is only read, never written.
C19_WrapGetValue ==
    helper = "wrap_get_value" =>
        LET memory == hargs[1]
            path == hargs[2].s
            f == hargs[3].s
            stored == get_value(memory, path)
        IN  /\ ~hret.exc
            /\ stored # None =>
                   /\ hret.value = stored
                   /\ "null_substitution" \notin Called
            /\ stored = None /\ f # "unset" =>
                   /\ hret = null_substitution(f, path)
                   /\ hcalls[Len(hcalls)] = <<"null_substitution", path>>
            /\ stored = None /\ f = "unset" =>
                   /\ hret.value = None
                   /\ "null_substitution" \notin Called
            /\ \A i \in 1..Len(hcalls) :
                   hcalls[i] \in {<<"get_value", path>>,
                                  <<"null_substitution", path>>}

\* a path holding null was read with no substitution configured
C19_Witness ==
    /\ helper = "wrap_get_value"
    /\ HasKey(hargs[1], hargs[2].s)
    /\ get_value(hargs[1], hargs[2].s) = None
    /\ hargs[3].s = "unset"
    /\ hret.value = None

\* the position at which the walk over the chain ends: the first node that
\* is neither an accessor nor an element, or one past the root accessor
WalkEnd(nodes) ==
    IF \E i \in 1..Len(nodes) : nodes[i] = Other
    THEN CHOOSE i \in 1..Len(nodes) : nodes[i] = Other
    ELSE Len(nodes) + 1

\* the subscript of the element at position i gave an int or a str
GoodSubscript(nodes, i) ==
    /\ ~nodes[i].sub.exc
    /\ nodes[i].sub.error = None
    /\ nodes[i].sub.value.t \in {"int", "str"}

\* node j written as a piece of the path
Segment(node, first) ==
    IF node.expr_type = "Accessor"
    THEN (IF first THEN "" ELSE ".") \o node.name
    ELSE IF node.sub.value.t = "int"
    THEN "[" \o ToString(node.sub.value.n) \o "]"
    ELSE "['" \o node.sub.value.s \o "']"

RECURSIVE Written(_, _, _)
\* the nodes j, j - 1, .. 1 written left to right; k - 1 is the leftmost
Written(nodes, j, k) ==
    IF j < 1 THEN ""
    ELSE Segment(nodes[j], j = k - 1) \o Written(nodes, j - 1, k)

\* the walked elements, outermost first
WalkedElements(nodes) ==
    {i \in 1..(WalkEnd(nodes) - 1) : nodes[i].expr_type = "Element"}

\* C20: on a chain of accessor and element nodes whose subscripts all
\* evaluate to integers or strings try_accumulate_path returns the path
\* written left to right, with '.' before each property name, [n] for an
\* integer and ['k'] for a string subscript, no leading or trailing '.' and
\* no '.' directly before '['; the residual is null when the chain ends in
\* a root accessor and is otherwise the first node that is neither accessor
\* nor element (with the suffix collected so far, or a null path if nothing
\* was collected); if the evaluation of a subscript fails it returns
\* (null path, null residual, that error).
C20_AccumulatedPath ==
    helper = "try_accumulate_path" =>
        LET nodes == hargs[1]
            k == WalkEnd(nodes)
            path == hret.value.l[1]
        IN  /\ (\A i \in WalkedElements(nodes) : GoodSubscript(nodes, i)) =>
                   /\ hret =
                        Ret2(PyList(<<IF k = 1 THEN None
                                      ELSE PyStr(Written(nodes, k - 1, k)),
                                      IF k > Len(nodes) THEN None
                                      ELSE PyInt(k)>>), None)
                   /\ path # None =>
                          /\ SubSeq(path.s, 1, 1) # "."
                          /\ Rstrip(path.s) = path.s
                          /\ Replace(path.s) = path.s
            /\ \A i \in WalkedElements(nodes) :
                   (/\ ~nodes[i].sub.exc
                    /\ nodes[i].sub.error # None
                    /\ \A j \in WalkedElements(nodes) :
                           (j < i => GoodSubscript(nodes, j)))
                   => hret = Ret2(PyList(<<None, None>>), nodes[i].sub.error)

\* the subscript of the element at position i gave, without error, a value
\* that is neither an integer nor a string
OddSubscript(nodes, i) ==
    /\ ~nodes[i].sub.exc
    /\ nodes[i].sub.error = None
    /\ ~IsInteger(nodes[i].sub.value)
    /\ nodes[i].sub.value.t # "str"

\* the walk reaches the element at position i: the subscripts above it gave
\* integers or strings
Reached(nodes, i) ==
    /\ i \in WalkedElements(nodes)
    /\ \A j \in WalkedElements(nodes) :
           j < i => (/\ ~nodes[j].sub.exc
                     /\ nodes[j].sub.error = None
                     /\ \/ IsInteger(nodes[j].sub.value)
                        \/ nodes[j].sub.value.t = "str")

\* C21: when try_accumulate_path meets an element whose subscript evaluates
\* without error to a value that is neither an integer nor a string (null,
\* 1.5, a list, a map), it stops and returns the residual node and the
\* suffix collected so far; it returns, it does not raise.
C21_ResidualOnOddSubscript ==
    helper = "try_accumulate_path" =>
        \A i \in 1..Len(hargs[1]) :
            Reached(hargs[1], i) /\ OddSubscript(hargs[1], i) =>
                /\ ~hret.exc
                /\ hret.value.l[2] = PyInt(i)

VerifierNames ==
    {"verify_string", "verify_string_or_null", "verify_list",
     "verify_not_null", "verify_container", "verify_number",
     "verify_integer", "verify_number_or_string",
     "verify_number_or_string_or_null", "verify_numeric_list",
     "verify_numeric_list_or_number"}

\* C29: every verifier returns null or an error string and never raises;
\* verify_numeric_list and verify_numeric_list_or_number, given a list that
\* holds an element that is not a number (a string, null, a nested list),
\* return an error string.
C29_VerifiersNeverRaise ==
    helper \in VerifierNames =>
        /\ ~hret.exc
        /\ hret.value.t \in {"null", "str"}
        /\ /\ helper \in {"verify_numeric_list",
                           "verify_numeric_list_or_number"}
           /\ hargs[1].t = "list"
           /\ \E i \in 1..Len(hargs[1].l) : ~IsNumber(hargs[1].l[i])
           => hret.value.t = "str"

\* the flags of a return type
Flags(x) ==
    {b \in {Boolean, Number, Object, String, Array} : (x \div b) % 2 = 1}

\* C22: validate_arity_and_any_type(node, min, max, declared) raises if and
\* only if the number of children is below min, or above max, or declared
\* does not include Object and some child has a return type that neither
\* includes Object nor shares a flag with declared; with declared = Object
\* only the arity is checked.
C22_ArityAndAnyType ==
    helper = "validate_arity_and_any_type" =>
        LET kids == hargs[1]
            min == hargs[2]
            max == hargs[3]
            declared == hargs[4]
        IN  /\ hret.exc <=>
                   \/ Len(kids) < min
                   \/ Len(kids) > max
                   \/ /\ Object \notin Flags(declared)
                      /\ \E i \in 1..Len(kids) :
                             /\ Object \notin Flags(kids[i])
                             /\ Flags(kids[i]) \cap Flags(declared) = {}
            /\ declared = Object =>
                   (hret.exc <=> Len(kids) < min \/ Len(kids) > max)
            /\ ~hret.exc => hret = Ret1(None)

\* a node of two children, one typed Object and one typed String, was
\* accepted for declared Number | String
C22_Witness ==
    /\ helper = "validate_arity_and_any_type"
    /\ hargs[1] = <<Object, String>>
    /\ hargs[4] = Number + String
    /\ ~hret.exc

\* either side includes Object or the two share a flag
Compatible(a, b) ==
    \/ Object \in Flags(a)
    \/ Object \in Flags(b)
    \/ Flags(a) \cap Flags(b) # {}

\* C23: validate_order(node, optional, *required) accepts a node if and
\* only if its child count n has len(required) <= n <= len(required) +
\* len(optional), every required position holds a child compatible with
\* its required type, and every optional position that is present holds a
\* child compatible with its optional type; absent optional positions are
\* not checked.
C23_ValidateOrder ==
    helper = "validate_order" =>
        LET kids == hargs[1]
            optional == IF hargs[2] = None THEN <<>> ELSE hargs[2].l
            required == hargs[3]
            n == Len(kids)
        IN  /\ ~hret.exc <=>
                   /\ Len(required) <= n
                   /\ n <= Len(required) + Len(optional)
                   /\ \A i \in 1..Len(required) :
                          Compatible(required[i], kids[i])
                   /\ \A j \in (Len(required) + 1)..n :
                          Compatible(optional[j - Len(required)], kids[j])
            /\ ~hret.exc => hret = Ret1(None)

\* the signature of formatTicks (Number, optional String) accepted a node
\* with the one required child
C23_Witness ==
    /\ helper = "validate_order"
    /\ hargs[1] = <<Number>>
    /\ hargs[2] = PyList(<<String>>)
    /\ hargs[3] = <<Number>>
    /\ ~hret.exc

(***************************************************************************)
(* Properties of the built-in functions (checked under SpecBuiltins).      *)
(***************************************************************************)
\* the 6-bit value of a base64 character
B64Value(c) == IndexIn(Base64Chars, c) - 1

RECURSIVE B64Bytes(_)
\* the bytes a base64 text stands for
B64Bytes(x) ==
    IF Len(x) < 4 THEN <<>>
    ELSE LET v == [i \in 1..4 |-> B64Value(SubSeq(x, i, i))]
             b1 == v[1] * 4 + v[2] \div 16
             b2 == (v[2] % 16) * 16 + v[3] \div 4
             b3 == (v[3] % 4) * 64 + v[4]
         IN  IF SubSeq(x, 3, 4) = "==" THEN <<b1>>
             ELSE IF SubSeq(x, 4, 4) = "=" THEN <<b1, b2>>
             ELSE <<b1, b2, b3>> \o B64Bytes(SubSeq(x, 5, Len(x)))

\* the text that follows the prefix in a data URI
Payload(x) == SubSeq(x, Len(DataUriPrefix) + 1, Len(x))

\* C24: dataUri(s) for a string s returns the prefix
\* "data:text/plain;charset=utf-8;base64," followed by the base64 encoding
\* of the UTF-8 bytes of s, with a null error (dataUri("hello") gives
\* ...base64,aGVsbG8=); for an argument that is not a string it returns
\* (null, an error saying the argument is not a string) and the encoder is
\* not run.
C24_DataUri ==
    kind = "dataUri" /\ ~children[1].exc /\ children[1].error = None =>
        LET arg == children[1].value
        IN  /\ arg.t = "str" =>
                   /\ ~out.exc
                   /\ out.error = None
                   /\ out.value.t = "str"
                   /\ SubSeq(out.value.s, 1, Len(DataUriPrefix)) = DataUriPrefix
                   /\ Len(Payload(out.value.s)) % 4 = 0
                   /\ B64Bytes(Payload(out.value.s)) = Encode(arg.s)
                   /\ arg.s = "hello" =>
                          out.value.s =
                            "data:text/plain;charset=utf-8;base64,aGVsbG8="
            /\ arg.t # "str" =>
                   /\ out = Ret2(None, PyStr(ChildText(0) \o " is not a string."))
                   /\ fnCalls = <<>>

\* dataUri was evaluated on a string that is not plain ASCII
C24_Witness ==
    /\ kind = "dataUri"
    /\ children[1].value = PyStr("héllo")
    /\ out.error = None
    /\ out.value.t = "str"

\* the instant of a tick count at the resolution of a datetime: the day, the
\* second of the day and the millisecond, the ticks rounded to microseconds
TickInstant(x) ==
    LET a == TicksOf(x)
        us == (a.frac + 5) \div 10
        sec == a.sec + us \div 1000000
    IN  [day |-> a.day + sec \div 86400, sec |-> sec % 86400,
         ms |-> (us % 1000000) \div 1000]

\* formatTicks was evaluated on children that all returned a value
TicksFormatted ==
    /\ kind = "formatTicks"
    /\ \A i \in 1..Len(children) :
           ~children[i].exc /\ children[i].error = None

\* the first child is an integer tick count of an instant of the years 1 to
\* 9999
IsTickCount ==
    /\ children[1].value.t = "int"
    /\ TicksOf(children[1].value).frac >= 0
    /\ TickInstant(children[1].value).day <= MaxDay

\* C25: formatTicks(T) of an integer tick count returns, with a null error,
\* the text of the UTC instant of T: in the default format it has the form
\* yyyy-MM-ddTHH:mm:ss.fffZ and names the day, second and millisecond of T;
\* a given format selects its fields of that text; the tick count
\* 637243624200000000 gives "2020-05-06T11:47:00.000Z"; a first argument
\* that is not an integer gives (null, "formatTicks first argument {...} is
\* not a number").  Booleans are left aside.
C25_FormatTicks ==
    TicksFormatted =>
        LET T == children[1].value
        IN  /\ (IsTickCount /\ Len(children) = 1) =>
                  /\ out.error = None /\ ~out.exc
                  /\ out.value.t = "str"
                  /\ IsoValid(out.value.s)
                  /\ IsoInstant(out.value.s) = TickInstant(T)
            /\ (IsTickCount /\ Len(children) = 2) =>
                  /\ out.error = None /\ ~out.exc
                  /\ out.value.t = "str"
                  /\ \E x \in {x \in {out.value.s \o "T00:00:00.000Z",
                               "0001-01-01T" \o out.value.s \o "Z"} :
                                  IsoValid(x)} :
                         /\ children[2].value.s = "yyyy-MM-dd" =>
                                IsoInstant(x).day = TickInstant(T).day
                         /\ children[2].value.s = "HH:mm:ss.fff" =>
                                /\ IsoInstant(x).sec = TickInstant(T).sec
                                /\ IsoInstant(x).ms = TickInstant(T).ms
            /\ T = PyTicks(737550, 42420, 0) /\ Len(children) = 1 =>
                  out = Ret2(PyStr("2020-05-06T11:47:00.000Z"), None)
            /\ T.t \notin {"int", "bool"} =>
                  /\ out.value = None /\ ~out.exc
                  /\ out.error.t = "str"
                  /\ Len(out.error.s) > Len("formatTicks first argument {} is not a number")
                  /\ SubSeq(out.error.s, 1, 28) = "formatTicks first argument {"
                  /\ SubSeq(out.error.s, Len(out.error.s) - 16,
                            Len(out.error.s)) = "} is not a number"
                  /\ SubSeq(out.error.s, 29, Len(out.error.s) - 17) = StrOf(T)

\* ticks was evaluated on a whole second given as a standard ISO timestamp
WholeSecondTicks ==
    /\ kind = "ticks"
    /\ ~children[1].exc /\ children[1].error = None
    /\ children[1].value.t = "str"
    /\ IsoValid(children[1].value.s)
    /\ IsoInstant(children[1].value.s).ms = 0

\* C30: for a whole-second standard ISO timestamp t, ticks_with_error(t)
\* returns, with a null error, a number equal to the tick count of t, and
\* formatTicks evaluated on that result returns (t, null): the result is
\* accepted as a tick count and formatted back to t in the default format.
C30_TicksRoundTrip ==
    [][WholeSecondTicks =>
          /\ out.error = None /\ ~out.exc
          /\ out.value.t \in {"int", "float"}
          /\ TicksOf(out.value)
                 = [day |-> IsoInstant(children[1].value.s).day,
                    sec |-> IsoInstant(children[1].value.s).sec,
                    frac |-> 0]
          /\ kind' = "formatTicks" => out' = Ret2(children[1].value, None)]_vars

(***************************************************************************)
(* Properties of sortBy and sortByDescending (checked under SpecBuiltins). *)
(***************************************************************************)
\* a sort node was evaluated and its first child returned a value
SortEvaluated ==
    /\ kind \in {"sortBy", "sortByDescending"}
    /\ ~children[1].exc /\ children[1].error = None

\* the name the elements are sorted by: a null name stands for ""
SortName ==
    IF children[2].value = None THEN "" ELSE children[2].value.s

\* the sort key of an element: its string form, or the named property
SortKeyOf(x) ==
    IF Len(children) = 1 THEN PyStr(StrOf(x)) ELSE DictGet(x, SortName)

\* the list can be sorted: with a property name, the name was evaluated to a
\* string or null, every element is an object that has the property, and
\* the properties are all numbers or all strings
Sortable ==
    /\ SortEvaluated
    /\ children[1].value.t = "list"
    /\ Len(children) = 2 =>
          /\ ~children[2].exc /\ children[2].error = None
          /\ children[2].value.t \in {"str", "null"}
          /\ \A i \in 1..Len(children[1].value.l) :
                 /\ children[1].value.l[i].t = "dict"
                 /\ HasKey(children[1].value.l[i], SortName)
          /\ \A i, j \in 1..Len(children[1].value.l) :
                 Orderable(SortKeyOf(children[1].value.l[i]),
                           SortKeyOf(children[1].value.l[j]))

\* the key a is not after the key b in the direction of the node
InOrder(a, b) ==
    IF kind = "sortBy" THEN ~KeyLess(b, a) ELSE ~KeyLess(a, b)

\* C26: sortBy and sortByDescending of a sortable list return, with a null
\* error, a permutation of the list in which the keys never go down
\* (sortBy) or up (sortByDescending) and elements of equal keys keep the
\* order they had in the input; a first argument that is not a list gives
\* (null, "<child> is not an array").
C26_SortBy ==
    /\ Sortable =>
          LET input == children[1].value.l
              n == Len(input)
          IN  /\ ~out.exc /\ out.error = None
              /\ out.value.t = "list" /\ Len(out.value.l) = n
              /\ \E p \in [1..n -> 1..n] :
                     /\ \A i, j \in 1..n : i # j => p[i] # p[j]
                     /\ \A i \in 1..n : out.value.l[i] = input[p[i]]
                     /\ \A i, j \in 1..n :
                            i < j =>
                              /\ InOrder(SortKeyOf(input[p[i]]),
                                         SortKeyOf(input[p[j]]))
                              /\ InOrder(SortKeyOf(input[p[j]]),
                                         SortKeyOf(input[p[i]]))
                                     => p[i] < p[j]
    /\ (SortEvaluated /\ children[1].value.t # "list") =>
          out = Ret2(None, PyStr(ChildText(0) \o " is not an array"))

\* sortByDescending by a property moved an element up and kept two elements
\* of equal keys in their input order
C26_Witness ==
    /\ Sortable /\ kind = "sortByDescending" /\ Len(children) = 2
    /\ Len(children[1].value.l) = 3
    /\ out.value.t = "list" /\ out.value # children[1].value
    /\ \E i, j \in 1..3 :
           /\ i < j
           /\ children[1].value.l[i] # children[1].value.l[j]
           /\ SortKeyOf(children[1].value.l[i])
                  = SortKeyOf(children[1].value.l[j])

\* C27: when the property-name child of a sort node over a list returns an
\* error, the evaluator returns (null, that error): it neither raises nor
\* returns a list together with the error.
C27_PropertyNameError ==
    (/\ SortEvaluated
     /\ children[1].value.t = "list"
     /\ Len(children) = 2
     /\ ~children[2].exc /\ children[2].error # None)
        => out = Ret2(None, children[2].error)

(***************************************************************************)
(* Properties of uriPort (checked under SpecBuiltins).                     *)
(***************************************************************************)
\* the port text of a URI is a number a port can be
ValidPort(x) ==
    /\ DigitsValue(PortText(Netloc(x))) >= 0
    /\ DigitsValue(PortText(Netloc(x))) <= MaxPort

\* C28: uriPort, whose child returned a pair, returns a pair and does not
\* raise: (null, the error) for a child error; (null, "<value> should be a
\* string.") for a value that is not a string; (null, "invalid operation,
\* input uri should be an absolute URI") for a string without an authority;
\* the port with a null error for an absolute URI (8080 for
\* 'http://www.localhost:8080', null when the URI names no port); and an
\* error value for a port text that is not a port number.
C28_UriPort ==
    (kind = "uriPort" /\ ~children[1].exc) =>
        LET v == children[1].value
        IN  /\ ~out.exc
            /\ children[1].error # None => out = Ret2(None, children[1].error)
            /\ (children[1].error = None /\ v.t # "str") =>
                  out = Ret2(None, PyStr(StrOf(v) \o " should be a string."))
            /\ (children[1].error = None /\ v.t = "str") =>
                  /\ Netloc(v.s) = "" =>
                        out = Ret2(None,
                                   PyStr("invalid operation, input uri should be an absolute URI"))
                  /\ (Netloc(v.s) # "" /\ PortText(Netloc(v.s)) = "") =>
                        out = Ret2(None, None)
                  /\ (Netloc(v.s) # "" /\ PortText(Netloc(v.s)) # ""
                         /\ ValidPort(v.s)) =>
                        out = Ret2(PyInt(DigitsValue(PortText(Netloc(v.s)))),
                                   None)
                  /\ (Netloc(v.s) # "" /\ PortText(Netloc(v.s)) # ""
                         /\ ~ValidPort(v.s)) =>
                        out.value = None /\ out.error # None
                  /\ v.s = "http://www.localhost:8080" =>
                        out = Ret2(PyInt(8080), None)

====
